---- MODULE Spec2Model ----
(***************************************************************************)
(* mini-livechat: the per-channel Floor Control state machine, the         *)
(* signaling handlers that drive it, the reaper's floor timeout check,     *)
(* the admin floor revoke and the floor gate of the media relay.           *)
(***************************************************************************)
EXTENDS Integers, Sequences, FiniteSets, TLC

----------------------------------------------------------------------------
(* Bounds of the model and program constants *)

Users == {"A", "B", "C"}

\* priorities a FLOOR_REQUEST payload may carry (payload.priority: Option<u8>)
ReqPriorities == {200}

TickMs == 6000

MaxTicks == 1

FLOOR_PING_TIMEOUT_MS == 6000

FLOOR_MAX_TAKEN_MS == 30000

FLOOR_PRIORITY_DEFAULT == 100

MAX_PEERS_PER_CHANNEL == 100

REAPER_INTERVAL_MS == 10000

ZOMBIE_TIMEOUT_MS == 30000

\* the clock of ReaperSpec stops here
MaxNow == 50000

\* capacity of the preset channel CH_0001
PRESET_CAPACITY == 20

\* the capacity of an outbound queue, standing for config::EGRESS_QUEUE_SIZE
EgressQueueSize == 2

\* the largest capacity CapacitySpec creates a channel with
MaxCapacity == 3

U8_MAX == 255

\* Option<T>
None == <<>>

Some(x) == <<x>>

unwrap(o) == o[1]

IsSome(o) == o # None

----------------------------------------------------------------------------
(* State *)

VARIABLES
    now,        \* utils::current_timestamp(), milliseconds
    channel,    \* ChannelHub entry of the one channel: None | Some(Channel)
    users,      \* UserHub.users: user_id -> None | Some([priority])
    session,    \* per connection: Session of handle_socket, and its outbound receiver
    by_ufrag,   \* MediaPeerHub.by_ufrag: ufrag -> None | Some(Endpoint)
    by_addr,    \* MediaPeerHub.by_addr: socket address -> None | Some(Endpoint)
    lastOp,     \* the handler that ran last, with its inputs and its decision
    sent,       \* the sends that handler attempted, in order
    outq,       \* per user: the frames in the bounded outbound queue (broadcast_rx)
    bcast,      \* the call of UserHub::broadcast_to in progress: None | Some(call)
    dtls,       \* DtlsSessionMap and its handshake workers, per socket address
    inflight,   \* per connection, the frames its handler built under the floor
                \* lock and has not sent yet
    admin,      \* admin_floor_revoke between its two lock scopes: None |
                \* Some(the holder it read in the first)
    last_seen,  \* User.last_seen per user_id and Endpoint.last_seen per ufrag
    user_tx,    \* User.tx per user_id: the connection whose outbound queue the
                \* UserHub entry holds, None | Some(connection)
    lk,         \* per task: the code path it runs and how far it is in the
                \* path's lock operations
    other_members   \* the member set of the second preset channel, CH_0002

\* the state of handlers that are split into their awaits
aux == <<outq, bcast, inflight, admin, last_seen, user_tx, lk, other_members>>

vars == <<now, channel, users, session, by_ufrag, by_addr, lastOp, sent, outq, bcast, dtls,
          inflight, admin, last_seen, user_tx, lk, other_members>>

current_timestamp == now

----------------------------------------------------------------------------
(* core/floor.rs: FloorControl *)

FloorControl_new ==
    [ state           |-> "Idle",
      floor_taken_by  |-> None,
      floor_taken_at  |-> None,
      floor_priority  |-> 0,
      floor_indicator |-> "Normal",
      queue           |-> <<>>,
      last_ping_at    |-> 0 ]

\* clear_taken that forgets to reset floor_taken_at
clear_taken_keeps_taken_at(f) ==
    [ f EXCEPT !.state           = "Idle",
               !.floor_taken_by  = None,
               !.floor_priority  = 0,
               !.floor_indicator = "Normal",
               !.last_ping_at    = 0 ]

clear_taken(f) ==
    [ f EXCEPT !.state           = "Idle",
               !.floor_taken_by  = None,
               !.floor_taken_at  = None,
               !.floor_priority  = 0,
               !.floor_indicator = "Normal",
               !.last_ping_at    = 0 ]

grant(f, user_id, priority, indicator) ==
    [ f EXCEPT !.state           = "Taken",
               !.floor_taken_by  = Some(user_id),
               !.floor_taken_at  = Some(current_timestamp),
               !.floor_priority  = priority,
               !.floor_indicator = indicator,
               !.last_ping_at    = current_timestamp ]

\* retain that drops nothing
retain_all(q, user_id) == q

\* queue.retain(|e| e.user_id != user_id)
retain_other(q, user_id) == SelectSeq(q, LAMBDA e : e.user_id # user_id)

\* position(|e| e.priority <= priority): a new entry overtakes its equals
insert_position_le(q, priority) ==
    LET lower == { i \in 1..Len(q) : q[i].priority <= priority }
    IN  IF lower = {} THEN Len(q)
        ELSE (CHOOSE i \in lower : \A j \in lower : i <= j) - 1

\* queue.iter().position(|e| e.priority < priority).unwrap_or(queue.len()), 0-based
insert_position(q, priority) ==
    LET lower == { i \in 1..Len(q) : q[i].priority < priority }
    IN  IF lower = {} THEN Len(q)
        ELSE (CHOOSE i \in lower : \A j \in lower : i <= j) - 1

\* VecDeque::insert(pos, entry)
insert_at(q, pos, entry) ==
    SubSeq(q, 1, pos) \o <<entry>> \o SubSeq(q, pos + 1, Len(q))

enqueue(f, user_id, priority, indicator) ==
    LET q1    == retain_other(f.queue, user_id)
        entry == [ user_id   |-> user_id,
                   priority  |-> priority,
                   indicator |-> indicator,
                   queued_at |-> current_timestamp ]
    IN  [ f EXCEPT !.queue = insert_at(q1, insert_position(q1, priority), entry) ]

\* dequeue_next that pops the back of the queue
dequeue_next_back(f) ==
    IF f.queue = <<>>
    THEN [ next |-> None, floor |-> f ]
    ELSE [ next  |-> Some(f.queue[Len(f.queue)]),
           floor |-> [ f EXCEPT !.queue = SubSeq(f.queue, 1, Len(f.queue) - 1) ] ]

\* pop_front: the entry (None when the queue is empty) and the floor without it
dequeue_next(f) ==
    IF f.queue = <<>>
    THEN [ next |-> None, floor |-> f ]
    ELSE [ next |-> Some(Head(f.queue)), floor |-> [ f EXCEPT !.queue = Tail(f.queue) ] ]

\* remove_from_queue that removes nothing
remove_from_queue_keeps(f, user_id) == f

remove_from_queue(f, user_id) ==
    [ f EXCEPT !.queue = retain_other(f.queue, user_id) ]

\* queue_position without the + 1
queue_position_0based(f, user_id) ==
    LET at == { i \in 1..Len(f.queue) : f.queue[i].user_id = user_id }
    IN  IF at = {} THEN None
        ELSE Some((CHOOSE i \in at : \A j \in at : i <= j) - 1)

\* 1-based index of the first entry of user_id, None when absent
queue_position(f, user_id) ==
    LET at == { i \in 1..Len(f.queue) : f.queue[i].user_id = user_id }
    IN  IF at = {} THEN None
        ELSE Some(CHOOSE i \in at : \A j \in at : i <= j)

\* can_preempt with >= for >
can_preempt_ge(f, req_priority, req_indicator) ==
    IF f.state # "Taken" THEN FALSE
    ELSE IF req_indicator = "Emergency" THEN TRUE
    ELSE req_priority >= f.floor_priority

can_preempt(f, req_priority, req_indicator) ==
    IF f.state # "Taken" THEN FALSE
    ELSE IF req_indicator = "Emergency" THEN TRUE
    ELSE req_priority > f.floor_priority

on_ping(f) == [ f EXCEPT !.last_ping_at = current_timestamp ]

\* u64::saturating_sub
saturating_sub(a, b) == IF a >= b THEN a - b ELSE 0

\* is_ping_timeout with > for >=
is_ping_timeout_gt(f) ==
    IF f.state # "Taken" THEN FALSE
    ELSE saturating_sub(current_timestamp, f.last_ping_at) > FLOOR_PING_TIMEOUT_MS

is_ping_timeout(f) ==
    IF f.state # "Taken" THEN FALSE
    ELSE saturating_sub(current_timestamp, f.last_ping_at) >= FLOOR_PING_TIMEOUT_MS

\* is_max_taken_exceeded that spares a holder whose ping is recent
is_max_taken_exceeded_if_silent(f) ==
    IF IsSome(f.floor_taken_at)
    THEN /\ saturating_sub(current_timestamp, unwrap(f.floor_taken_at)) >= FLOOR_MAX_TAKEN_MS
         /\ saturating_sub(current_timestamp, f.last_ping_at) >= FLOOR_PING_TIMEOUT_MS
    ELSE FALSE

is_max_taken_exceeded(f) ==
    IF IsSome(f.floor_taken_at)
    THEN saturating_sub(current_timestamp, unwrap(f.floor_taken_at)) >= FLOOR_MAX_TAKEN_MS
    ELSE FALSE

----------------------------------------------------------------------------
(* protocol/message.rs: the frames the server sends *)

Pkt(op, user_id, indicator, cause, a, b) ==
    [ op |-> op, user_id |-> user_id, indicator |-> indicator, cause |-> cause,
      a |-> a, b |-> b ]

FloorGranted(user_id) == Pkt("FLOOR_GRANTED", user_id, "", "", FLOOR_MAX_TAKEN_MS, 0)

FloorTaken(user_id, indicator) == Pkt("FLOOR_TAKEN", user_id, indicator, "", 0, 0)

FloorIdle == Pkt("FLOOR_IDLE", "", "", "", 0, 0)

FloorRevoke(cause) == Pkt("FLOOR_REVOKE", "", "", cause, 0, 0)

\* a = queue_position, b = queue_size
FloorQueuePosInfo(pos, size) == Pkt("FLOOR_QUEUE_POS_INFO", "", "", "", pos, size)

FloorPong == Pkt("FLOOR_PONG", "", "", "", 0, 0)

HeartbeatAck == Pkt("HEARTBEAT_ACK", "", "", "", 0, 0)

Ready(user_id) == Pkt("READY", user_id, "", "", 0, 0)

\* cause = the client opcode acknowledged
Ack(op) == Pkt("ACK", "", "", op, 0, 0)

\* a = LiveError::code()
Error(code) == Pkt("ERROR", "", "", "", code, 0)

\* cause = event
ChannelEvent(event, member) == Pkt("CHANNEL_EVENT", member, "", event, 0, 0)

----------------------------------------------------------------------------
(* core/user.rs: UserHub; a send is recorded as the set of users whose
   outbound queue it is attempted on, with the frame *)

\* UserHub::register: insert into the HashMap, replacing an entry of the same id
register(hub, user_id, priority) ==
    [ hub EXCEPT ![user_id] = Some([ priority |-> priority ]) ]

\* unregister that removes nothing
unregister_keeps(hub, user_id) == hub

\* UserHub::unregister
unregister(hub, user_id) == [ hub EXCEPT ![user_id] = None ]

\* UserHub::count
count(hub) == Cardinality({ uid \in DOMAIN hub : IsSome(hub[uid]) })

Snd(to, pkt) == [ to |-> to, pkt |-> pkt ]

\* user_hub.get(uid) then user.tx.send(json)
send_to_user(uid, pkt) ==
    IF IsSome(users[uid]) THEN << Snd({uid}, pkt) >> ELSE <<>>

\* the recipients of UserHub::broadcast_to
broadcast_targets(user_ids, exclude) ==
    { uid \in user_ids : (exclude = None \/ unwrap(exclude) # uid) /\ IsSome(users[uid]) }

broadcast_to(user_ids, pkt, exclude) ==
    << Snd(broadcast_targets(user_ids, exclude), pkt) >>

\* send(tx, json) on the connection's own outbound queue
send(c, pkt) == << Snd({c}, pkt) >>

\* tx.send fails exactly when the connection's outbound receiver is gone
tx_ok(c) == session[c].rx

----------------------------------------------------------------------------
(* protocol/floor.rs *)

\* (target, exclude, json)
Packet(target, exclude, json) == [ target |-> target, exclude |-> exclude, json |-> json ]

\* a decide_next that never looks at the queue
decide_next_never_grants(f, members) ==
    [ floor   |-> clear_taken(f),
      packets |-> << Packet(None, None, FloorIdle) >> ]

\* decide_next: grant to the head of the queue, or Idle when the queue is empty
decide_next(f, members) ==
    LET d == dequeue_next(f) IN
    IF IsSome(d.next)
    THEN LET next == unwrap(d.next) IN
         [ floor   |-> grant(d.floor, next.user_id, next.priority, next.indicator),
           packets |-> << Packet(Some(next.user_id), None, FloorGranted(next.user_id)),
                          Packet(None, Some(next.user_id),
                                 FloorTaken(next.user_id, next.indicator)) >> ]
    ELSE [ floor   |-> clear_taken(d.floor),
           packets |-> << Packet(None, None, FloorIdle) >> ]

dispatch_one(p, members) ==
    IF IsSome(p.target)
    THEN send_to_user(unwrap(p.target), p.json)
    ELSE broadcast_to(members, p.json, p.exclude)

RECURSIVE dispatch_packets(_, _)
dispatch_packets(packets, members) ==
    IF packets = <<>> THEN <<>>
    ELSE dispatch_one(Head(packets), members) \o dispatch_packets(Tail(packets), members)

\* payload.priority.unwrap_or_else(|| user_hub.get(user_id).map(|u| u.priority)
\*                                     .unwrap_or(FLOOR_PRIORITY_DEFAULT))
request_priority(user_id, payload_priority) ==
    IF IsSome(payload_priority) THEN unwrap(payload_priority)
    ELSE IF IsSome(users[user_id]) THEN unwrap(users[user_id]).priority
    ELSE FLOOR_PRIORITY_DEFAULT

request_indicator(payload_indicator) ==
    IF IsSome(payload_indicator) THEN unwrap(payload_indicator) ELSE "Normal"

\* the locked section of handle_floor_request: the new floor and the Action
floor_request_locked(f, user_id, priority, indicator) ==
    IF f.state = "Idle"
    THEN [ floor  |-> grant(f, user_id, priority, indicator),
           action |-> "Granted", old_holder |-> None, pos |-> 0, size |-> 0 ]
    ELSE IF can_preempt(f, priority, indicator)
    THEN [ floor  |-> grant(f, user_id, priority, indicator),
           action |-> "Preempt", old_holder |-> f.floor_taken_by, pos |-> 0, size |-> 0 ]
    ELSE LET g   == enqueue(f, user_id, priority, indicator)
             qp  == queue_position(g, user_id)
         IN  [ floor  |-> g,
               action |-> "Queued", old_holder |-> None,
               pos    |-> IF IsSome(qp) THEN unwrap(qp) ELSE 1,
               size   |-> Len(g.queue) ]

\* the sends of handle_floor_request after the lock is released
floor_request_sends(c, user_id, indicator, members, r) ==
    IF r.action = "Granted"
    THEN send(c, FloorGranted(user_id))
         \o (IF tx_ok(c)
             THEN broadcast_to(members, FloorTaken(user_id, indicator), Some(user_id))
             ELSE <<>>)
    ELSE IF r.action = "Preempt"
    THEN send_to_user(unwrap(r.old_holder), FloorRevoke("preempted"))
         \o send(c, FloorGranted(user_id))
         \o (IF tx_ok(c)
             THEN broadcast_to(members, FloorTaken(user_id, indicator), Some(user_id))
             ELSE <<>>)
    ELSE send(c, FloorQueuePosInfo(r.pos, r.size))

----------------------------------------------------------------------------
(* core/channel.rs and core/media_peer.rs *)

CH == "CH_0001"

Channel_new(capacity) ==
    [ members  |-> {},
      floor    |-> FloorControl_new,
      capacity |-> capacity ]

\* create that replaces an existing channel
create_overwrites(hub, capacity) == Some(Channel_new(capacity))

\* ChannelHub::create for CH: entry(channel_id).or_insert_with(Channel::new)
create(hub, capacity) ==
    IF IsSome(hub) THEN hub ELSE Some(Channel_new(capacity))

\* ChannelHub::remove for CH: the map afterwards, and the bool it returns
remove(hub) == None

remove_result(hub) == IsSome(hub)

\* add_member_error letting one member past the capacity
add_member_error_gt(ch, user_id) ==
    IF Cardinality(ch.members) > ch.capacity THEN "ChannelFull"
    ELSE IF user_id \in ch.members THEN "AlreadyInChannel"
    ELSE ""

\* Channel::add_member: the error it returns ("" for Ok)
add_member_error(ch, user_id) ==
    IF Cardinality(ch.members) >= ch.capacity THEN "ChannelFull"
    ELSE IF user_id \in ch.members THEN "AlreadyInChannel"
    ELSE ""

\* the ufrags build_sdp_answer may generate for a connection (random_ice_string)
MaxUfrag == 2

\* the tasks that take the shared locks side by side
Tasks == {"t1", "t2", "t3"}

Ufrags == Users \X (1..MaxUfrag)

\* An Arc<Endpoint> held by a map is the endpoint's record; ptr names the
\* allocation, and the entries of both maps that hold one allocation hold the
\* same record.
Endpoint_new(ptr, ufrag, user_id, channel_id) ==
    [ ptr |-> ptr, ufrag |-> ufrag, user_id |-> user_id, channel_id |-> channel_id,
      address |-> None, inbound_srtp |-> FALSE, outbound_srtp |-> FALSE ]

\* the allocations the entries of a map hold
map_ptrs(m) == { unwrap(m[k]).ptr : k \in { x \in DOMAIN m : IsSome(m[x]) } }

\* Arc::new: an allocation neither map holds, named by its ufrag and a serial
fresh_ptr(hub, addrs, ufrag) ==
    LET used == map_ptrs(hub) \cup map_ptrs(addrs)
        n    == CHOOSE p \in 1..(Cardinality(used) + 1) :
                    <<ufrag, p>> \notin used /\ \A q \in 1..(p - 1) : <<ufrag, q>> \in used
    IN  <<ufrag, n>>

\* a write to the allocation ptr, seen through every entry of m that holds it
write_endpoint(m, ptr, field, value) ==
    [ k \in DOMAIN m |->
        IF IsSome(m[k]) /\ unwrap(m[k]).ptr = ptr
        THEN Some([ unwrap(m[k]) EXCEPT ![field] = value ])
        ELSE m[k] ]

\* MediaPeerHub::insert, on by_ufrag
hub_insert(hub, addrs, ufrag, user_id, channel_id) ==
    [ hub EXCEPT ![ufrag] = Some(Endpoint_new(fresh_ptr(hub, addrs, ufrag), ufrag, user_id, channel_id)) ]

\* MediaPeerHub::latch, on by_ufrag: Endpoint::latch_address
hub_latch(hub, ufrag, addr) ==
    IF hub[ufrag] = None THEN hub
    ELSE write_endpoint(hub, unwrap(hub[ufrag]).ptr, "address", Some(addr))

\* MediaPeerHub::latch, on by_addr: by_addr.insert(addr, Arc::clone(&ep))
addr_latch(addrs, hub, ufrag, addr) ==
    IF hub[ufrag] = None THEN addrs
    ELSE LET ep == unwrap(hub[ufrag])
         IN  [ write_endpoint(addrs, ep.ptr, "address", Some(addr))
                 EXCEPT ![addr] = Some([ ep EXCEPT !.address = Some(addr) ]) ]

\* MediaPeerHub::remove, on by_ufrag
hub_remove(hub, ufrag) ==
    IF IsSome(ufrag) /\ unwrap(ufrag) \in DOMAIN hub
    THEN [ hub EXCEPT ![unwrap(ufrag)] = None ]
    ELSE hub

\* MediaPeerHub::remove, on by_addr: the removed endpoint's latched address is forgotten
addr_remove(addrs, hub, ufrag) ==
    IF IsSome(ufrag) /\ unwrap(ufrag) \in DOMAIN hub /\ IsSome(hub[unwrap(ufrag)])
       /\ IsSome(unwrap(hub[unwrap(ufrag)]).address)
    THEN [ addrs EXCEPT ![unwrap(unwrap(hub[unwrap(ufrag)]).address)] = None ]
    ELSE addrs

\* MediaPeerHub::get_by_addr
get_by_addr(addr) == by_addr[addr]

\* MediaPeerHub::get_channel_endpoints: the ufrags of the channel's endpoints
get_channel_endpoints(channel_id) ==
    { k \in Ufrags : IsSome(by_ufrag[k]) /\ unwrap(by_ufrag[k]).channel_id = channel_id }

\* random_ice_string: a ufrag no endpoint in either map carries
fresh_ufrag(ufrag) ==
    /\ by_ufrag[ufrag] = None
    /\ \A a \in DOMAIN by_addr : IsSome(by_addr[a]) => unwrap(by_addr[a]).ufrag # ufrag

----------------------------------------------------------------------------
(* protocol/protocol.rs: one WebSocket connection per user id *)

Session_new ==
    [ open |-> TRUE, rx |-> TRUE, user_id |-> None,
      current_channel |-> None, current_ufrag |-> None ]

Session_closed ==
    [ open |-> FALSE, rx |-> FALSE, user_id |-> None,
      current_channel |-> None, current_ufrag |-> None ]

is_authenticated(c) == IsSome(session[c].user_id)

\* the opcodes of a client packet; "UNKNOWN" is any other number
ClientOpcodes ==
    { "HEARTBEAT", "IDENTIFY", "CHANNEL_CREATE", "CHANNEL_JOIN", "CHANNEL_LEAVE",
      "CHANNEL_UPDATE", "CHANNEL_DELETE", "CHANNEL_LIST", "CHANNEL_INFO",
      "MESSAGE_CREATE", "FLOOR_REQUEST", "FLOOR_RELEASE", "FLOOR_PING", "UNKNOWN" }

\* a gate that lets CHANNEL_DELETE through
requires_auth_but_delete(op) == op \notin {"IDENTIFY", "HEARTBEAT", "CHANNEL_DELETE"}

\* packet.op != IDENTIFY && packet.op != HEARTBEAT
requires_auth(op) == op # "IDENTIFY" /\ op # "HEARTBEAT"

\* the packet reaches the dispatch
gate_passes(c, op) == requires_auth(op) => is_authenticated(c)

\* the secret IDENTIFY tokens are compared with, and the tokens a client sends
DEFAULT_SECRET_KEY == "changeme-secret"

Tokens == {DEFAULT_SECRET_KEY, "wrong"}

\* prior: for a FLOOR_REQUEST, the requester's queue position before the handler ran
Op(op, user, action, priority, indicator, old_holder) ==
    [ op |-> op, user |-> user, action |-> action, priority |-> priority,
      indicator |-> indicator, old_holder |-> old_holder, prior |-> None ]

\* nothing queued, no split handler in progress
\* DtlsSessionMap::new: no session, nothing pending; arrived counts the DTLS
\* records received so far and numbers them
DtlsSessionMap_new ==
    [ sessions |-> [ a \in Users |-> None ],
      pending  |-> [ a \in Users |-> <<>> ],
      arrived  |-> 0,
      owing    |-> [ a \in Users |-> 0 ] ]

AuxInit ==
    /\ outq = [ u \in Users |-> <<>> ]
    /\ bcast = None
    /\ dtls = DtlsSessionMap_new
    /\ inflight = [ c \in Users |-> <<>> ]
    /\ admin = None
    /\ last_seen = [ user |-> [ u \in Users |-> 0 ], ep |-> [ k \in Ufrags |-> 0 ] ]
    /\ user_tx = [ u \in Users |-> None ]
    /\ lk = [ t \in Tasks |-> [ path |-> "", pc |-> 0 ] ]
    /\ other_members = {}

Init ==
    /\ now = 0
    /\ channel = Some(Channel_new(PRESET_CAPACITY))
    /\ users = [ u \in Users |-> None ]
    /\ session = [ c \in Users |-> Session_closed ]
    /\ by_ufrag = [ k \in Ufrags |-> None ]
    /\ by_addr = [ a \in Users |-> None ]
    /\ lastOp = Op("INIT", "", "", 0, "", None)
    /\ sent = <<>>
    /\ AuxInit

\* the clock advances
Tick ==
    /\ now < MaxTicks * TickMs
    /\ now' = now + TickMs
    /\ lastOp' = Op("TICK", "", "", 0, "", None)
    /\ sent' = <<>>
    /\ UNCHANGED <<channel, users, session, by_ufrag, by_addr>>
    /\ UNCHANGED <<aux, dtls>>

\* handle_socket up to the read loop
Connect(c) ==
    /\ ~session[c].open
    /\ session' = [ session EXCEPT ![c] = Session_new ]
    /\ lastOp' = Op("CONNECT", c, "", 0, "", None)
    /\ sent' = <<>>
    /\ UNCHANGED <<now, channel, users, by_ufrag, by_addr>>
    /\ UNCHANGED <<aux, dtls>>

\* rx_loop ends: writing a queued frame (READY at the earliest) to the socket
\* failed, and the outbound receiver is dropped
RxLoopEnd(c) ==
    /\ session[c].open
    /\ is_authenticated(c)
    /\ session[c].rx
    /\ session' = [ session EXCEPT ![c].rx = FALSE ]
    /\ lastOp' = Op("RX_LOOP_END", c, "", 0, "", None)
    /\ sent' = <<>>
    /\ UNCHANGED <<now, channel, users, by_ufrag, by_addr>>
    /\ UNCHANGED <<aux, dtls>>

\* the authentication gate of handle_socket refuses a packet with opcode op
NotAuthenticated(c, op) ==
    /\ session[c].open
    /\ ~gate_passes(c, op)
    /\ lastOp' = Op("GATED", c, "NotAuthenticated", 0, op, None)
    /\ sent' = send(c, Error(1000))
    /\ UNCHANGED <<now, channel, users, session, by_ufrag, by_addr>>
    /\ UNCHANGED <<aux, dtls>>

\* handle_heartbeat
HandleHeartbeat(c) ==
    /\ session[c].open
    /\ gate_passes(c, "HEARTBEAT")
    /\ lastOp' = Op("HEARTBEAT", c, "", 0, "", None)
    /\ sent' = send(c, HeartbeatAck)
    /\ UNCHANGED <<now, channel, users, session, by_ufrag, by_addr>>
    /\ UNCHANGED <<aux, dtls>>

\* payload.token != expected
token_mismatch(token) == token # DEFAULT_SECRET_KEY

HandleIdentify(c, token, payload_priority) ==
    /\ session[c].open
    /\ gate_passes(c, "IDENTIFY")
    /\ IF token_mismatch(token)
       THEN /\ lastOp' = Op("IDENTIFY", c, "InvalidToken", 0, token, None)
            /\ sent' = send(c, Error(1001))
            /\ UNCHANGED <<users, session>>
       ELSE LET priority == IF IsSome(payload_priority) THEN unwrap(payload_priority)
                            ELSE FLOOR_PRIORITY_DEFAULT
            IN  /\ users' = register(users, c, priority)
                /\ session' = [ session EXCEPT ![c].user_id = Some(c) ]
                /\ lastOp' = Op("IDENTIFY", c, "Ready", priority, token, None)
                /\ sent' = send(c, Ready(c))
    /\ UNCHANGED <<now, channel, by_ufrag, by_addr>>
    /\ UNCHANGED <<aux, dtls>>

HandleChannelCreate(c) ==
    /\ session[c].open
    /\ gate_passes(c, "CHANNEL_CREATE")
    /\ channel' = create(channel, MAX_PEERS_PER_CHANNEL)
    /\ lastOp' = Op("CHANNEL_CREATE", c, "", 0, "", None)
    /\ sent' = send(c, Ack("CHANNEL_CREATE"))
    /\ UNCHANGED <<now, users, session, by_ufrag, by_addr>>
    /\ UNCHANGED <<aux, dtls>>

HandleChannelDelete(c) ==
    /\ session[c].open
    /\ gate_passes(c, "CHANNEL_DELETE")
    /\ channel' = None
    /\ IF IsSome(channel)
       THEN /\ lastOp' = Op("CHANNEL_DELETE", c, "Deleted", 0, "", None)
            /\ sent' = broadcast_to(unwrap(channel).members, ChannelEvent("delete", "system"), None)
                       \o send(c, Ack("CHANNEL_DELETE"))
       ELSE /\ lastOp' = Op("CHANNEL_DELETE", c, "ChannelNotFound", 0, "", None)
            /\ sent' = send(c, Error(2000))
    /\ UNCHANGED <<now, users, session, by_ufrag, by_addr>>
    /\ UNCHANGED <<aux, dtls>>

HandleChannelJoin(c) ==
    /\ session[c].open
    /\ gate_passes(c, "CHANNEL_JOIN")
    /\ LET user_id == unwrap(session[c].user_id) IN
       IF channel = None
       THEN /\ lastOp' = Op("CHANNEL_JOIN", c, "ChannelNotFound", 0, "", None)
            /\ sent' = <<>>
            /\ UNCHANGED <<channel, session, by_ufrag, by_addr>>
       ELSE LET ch  == unwrap(channel)
                err == add_member_error(ch, user_id)
            IN
            IF err # ""
            THEN /\ lastOp' = Op("CHANNEL_JOIN", c, err, 0, "", None)
                 /\ sent' = <<>>
                 /\ UNCHANGED <<channel, session, by_ufrag, by_addr>>
            ELSE \E k \in 1..MaxUfrag :
                 /\ fresh_ufrag(<<c, k>>)
                 /\ \A j \in 1..(k - 1) : ~fresh_ufrag(<<c, j>>)
                 /\ LET members == ch.members \cup {user_id} IN
                    /\ channel' = Some([ ch EXCEPT !.members = members ])
                    /\ by_ufrag' = hub_insert(by_ufrag, by_addr, <<c, k>>, user_id, CH)
                    /\ by_addr' = by_addr
                    /\ session' = [ session EXCEPT ![c].current_channel = Some(CH),
                                                   ![c].current_ufrag = Some(<<c, k>>) ]
                    /\ lastOp' = Op("CHANNEL_JOIN", c, "Joined", 0, "", ch.floor.floor_taken_by)
                    /\ sent' = send(c, Ack("CHANNEL_JOIN"))
                         \o (IF ~tx_ok(c) THEN <<>>
                             ELSE broadcast_to(members, ChannelEvent("join", user_id), Some(user_id))
                                  \o (IF ch.floor.state = "Taken" /\ IsSome(ch.floor.floor_taken_by)
                                      THEN send(c, FloorTaken(unwrap(ch.floor.floor_taken_by), "Normal"))
                                      ELSE <<>>))
    /\ UNCHANGED <<now, users>>
    /\ UNCHANGED <<aux, dtls>>

HandleChannelLeave(c) ==
    /\ session[c].open
    /\ gate_passes(c, "CHANNEL_LEAVE")
    /\ LET user_id == unwrap(session[c].user_id) IN
       IF session[c].current_channel # Some(CH)
       THEN /\ lastOp' = Op("CHANNEL_LEAVE", c, "NotInChannel", 0, "", None)
            /\ sent' = send(c, Error(2004))
            /\ UNCHANGED <<channel, session, by_ufrag, by_addr>>
       ELSE /\ channel' = IF IsSome(channel)
                          THEN Some([ unwrap(channel) EXCEPT !.members = @ \ {user_id} ])
                          ELSE channel
            /\ by_ufrag' = hub_remove(by_ufrag, session[c].current_ufrag)
            /\ by_addr' = addr_remove(by_addr, by_ufrag, session[c].current_ufrag)
            /\ session' = [ session EXCEPT ![c].current_channel = None,
                                           ![c].current_ufrag = None ]
            /\ lastOp' = Op("CHANNEL_LEAVE", c, "Left", 0, "", None)
            /\ sent' = (IF IsSome(channel)
                        THEN broadcast_to(unwrap(channel).members,
                                          ChannelEvent("leave", user_id), Some(user_id))
                        ELSE <<>>)
                       \o send(c, Ack("CHANNEL_LEAVE"))
    /\ UNCHANGED <<now, users>>
    /\ UNCHANGED <<aux, dtls>>

----------------------------------------------------------------------------
(* protocol/floor.rs: the op handlers, each with the floor lock held for its
   decision and the sends made after the lock is released *)

HandleFloorRequest(c, payload_priority, payload_indicator) ==
    /\ session[c].open
    /\ gate_passes(c, "FLOOR_REQUEST")
    /\ LET user_id   == unwrap(session[c].user_id)
           priority  == request_priority(user_id, payload_priority)
           indicator == request_indicator(payload_indicator)
       IN
       IF channel = None
       THEN /\ lastOp' = Op("FLOOR_REQUEST", c, "ChannelNotFound", priority, indicator, None)
            /\ sent' = <<>>
            /\ UNCHANGED channel
       ELSE LET ch == unwrap(channel)
                r  == floor_request_locked(ch.floor, user_id, priority, indicator)
            IN  /\ channel' = Some([ ch EXCEPT !.floor = r.floor ])
                /\ lastOp' = [ Op("FLOOR_REQUEST", c, r.action, priority, indicator, r.old_holder)
                                EXCEPT !.prior = queue_position(ch.floor, user_id) ]
                /\ sent' = floor_request_sends(c, user_id, indicator, ch.members, r)
    /\ UNCHANGED <<now, users, session, by_ufrag, by_addr>>
    /\ UNCHANGED <<aux, dtls>>

\* a holder check that only asks whether the floor has a holder
is_holder_any(f, user_id) == IsSome(f.floor_taken_by)

\* floor.floor_taken_by.as_deref() == Some(user_id)
is_holder(f, user_id) == f.floor_taken_by = Some(user_id)

HandleFloorRelease(c) ==
    /\ session[c].open
    /\ gate_passes(c, "FLOOR_RELEASE")
    /\ LET user_id == unwrap(session[c].user_id) IN
       IF channel = None
       THEN /\ lastOp' = Op("FLOOR_RELEASE", c, "ChannelNotFound", 0, "", None)
            /\ sent' = <<>>
            /\ UNCHANGED channel
       ELSE LET ch == unwrap(channel) IN
            IF ~is_holder(ch.floor, user_id)
            THEN /\ lastOp' = Op("FLOOR_RELEASE", c, "NonHolder", 0, "", ch.floor.floor_taken_by)
                 /\ sent' = <<>>
                 /\ UNCHANGED channel
            ELSE LET d == decide_next(ch.floor, ch.members) IN
                 /\ channel' = Some([ ch EXCEPT !.floor = d.floor ])
                 /\ lastOp' = Op("FLOOR_RELEASE", c, "Released", 0, "", ch.floor.floor_taken_by)
                 /\ sent' = dispatch_packets(d.packets, ch.members)
    /\ UNCHANGED <<now, users, session, by_ufrag, by_addr>>
    /\ UNCHANGED <<aux, dtls>>

HandleFloorPing(c) ==
    /\ session[c].open
    /\ gate_passes(c, "FLOOR_PING")
    /\ LET user_id == unwrap(session[c].user_id) IN
       IF channel = None
       THEN /\ lastOp' = Op("FLOOR_PING", c, "ChannelNotFound", 0, "", None)
            /\ sent' = <<>>
            /\ UNCHANGED channel
       ELSE LET ch == unwrap(channel) IN
            IF ~is_holder(ch.floor, user_id)
            THEN /\ lastOp' = Op("FLOOR_PING", c, "NonHolder", 0, "", ch.floor.floor_taken_by)
                 /\ sent' = <<>>
                 /\ UNCHANGED channel
            ELSE /\ channel' = Some([ ch EXCEPT !.floor = on_ping(ch.floor) ])
                 /\ lastOp' = Op("FLOOR_PING", c, "Pong", 0, "", ch.floor.floor_taken_by)
                 /\ sent' = send(c, FloorPong)
    /\ UNCHANGED <<now, users, session, by_ufrag, by_addr>>
    /\ UNCHANGED <<aux, dtls>>

\* on_user_disconnect: the channel after it and the frames it dispatches
on_user_disconnect(user_id, chan) ==
    IF chan = None
    THEN [ channel |-> chan, sent |-> <<>> ]
    ELSE LET ch      == unwrap(chan)
             members == ch.members
             f1      == remove_from_queue(ch.floor, user_id)
         IN  IF f1.floor_taken_by = Some(user_id)
             THEN LET d == decide_next(f1, members) IN
                  [ channel |-> Some([ ch EXCEPT !.floor = d.floor ]),
                    sent    |-> dispatch_packets(d.packets, members) ]
             ELSE [ channel |-> Some([ ch EXCEPT !.floor = f1 ]), sent |-> <<>> ]

\* the socket closes: cleanup(session, state), then rx_loop.abort()
Close(c) ==
    /\ session[c].open
    /\ IF ~is_authenticated(c)
       THEN /\ lastOp' = Op("CLOSE", c, "Anonymous", 0, "", None)
            /\ sent' = <<>>
            /\ UNCHANGED <<channel, users, by_ufrag, by_addr>>
       ELSE LET user_id == unwrap(session[c].user_id) IN
            IF IsSome(session[c].current_channel) /\ IsSome(session[c].current_ufrag)
            THEN LET left == IF IsSome(channel)
                             THEN Some([ unwrap(channel) EXCEPT !.members = @ \ {user_id} ])
                             ELSE channel
                     ev   == IF IsSome(channel)
                             THEN broadcast_to(unwrap(channel).members,
                                               ChannelEvent("leave", user_id), Some(user_id))
                             ELSE <<>>
                     d    == on_user_disconnect(user_id, left)
                 IN  /\ channel' = d.channel
                     /\ by_ufrag' = hub_remove(by_ufrag, session[c].current_ufrag)
                     /\ by_addr' = addr_remove(by_addr, by_ufrag, session[c].current_ufrag)
                     /\ users' = unregister(users, user_id)
                     /\ lastOp' = Op("CLOSE", c, "Cleanup", 0, "",
                                     IF IsSome(channel) THEN unwrap(channel).floor.floor_taken_by
                                     ELSE None)
                     /\ sent' = ev \o d.sent
            ELSE /\ users' = unregister(users, user_id)
                 /\ lastOp' = Op("CLOSE", c, "Unregister", 0, "", None)
                 /\ sent' = <<>>
                 /\ UNCHANGED <<channel, by_ufrag, by_addr>>
    /\ session' = [ session EXCEPT ![c] = Session_closed ]
    /\ UNCHANGED now
    /\ UNCHANGED <<aux, dtls>>

\* check_floor_timeouts, called by every tick of run_zombie_reaper
CheckFloorTimeouts ==
    /\ IF channel = None
       THEN /\ lastOp' = Op("FLOOR_TIMEOUTS", "", "NoChannel", 0, "", None)
            /\ sent' = <<>>
            /\ UNCHANGED channel
       ELSE LET ch    == unwrap(channel)
                f     == ch.floor
                cause == IF f.state # "Taken" THEN ""
                         ELSE IF is_max_taken_exceeded(f) THEN "max_duration"
                         ELSE IF is_ping_timeout(f) THEN "ping_timeout"
                         ELSE ""
            IN  IF cause = ""
                THEN /\ lastOp' = Op("FLOOR_TIMEOUTS", "", "Skip", 0, "", f.floor_taken_by)
                     /\ sent' = <<>>
                     /\ UNCHANGED channel
                ELSE LET holder == unwrap(f.floor_taken_by)
                         d      == decide_next(f, ch.members)
                     IN  /\ channel' = Some([ ch EXCEPT !.floor = d.floor ])
                         /\ lastOp' = Op("FLOOR_TIMEOUTS", "", cause, 0, "", f.floor_taken_by)
                         /\ sent' = send_to_user(holder, FloorRevoke(cause))
                                    \o dispatch_packets(d.packets, ch.members)
    /\ UNCHANGED <<now, users, session, by_ufrag, by_addr>>
    /\ UNCHANGED <<aux, dtls>>

\* a queue.clear() that clears nothing
queue_clear_keeps(f) == f

\* floor.queue.clear()
queue_clear(f) == [ f EXCEPT !.queue = <<>> ]

\* POST /admin/floor-revoke/{channel_id}: the check of the floor state and the
\* clearing of the floor, which the code does in two lock sections with no
\* await between them, taken as one step
AdminFloorRevoke ==
    /\ IF channel = None
       THEN /\ lastOp' = Op("ADMIN_REVOKE", "", "NotFound", 0, "", None)
            /\ sent' = <<>>
            /\ UNCHANGED channel
       ELSE LET ch == unwrap(channel)
                f  == ch.floor
            IN  IF f.state # "Taken"
                THEN /\ lastOp' = Op("ADMIN_REVOKE", "", "Conflict", 0, "", f.floor_taken_by)
                     /\ sent' = <<>>
                     /\ UNCHANGED channel
                ELSE /\ channel' = Some([ ch EXCEPT !.floor = clear_taken(queue_clear(f)) ])
                     /\ lastOp' = Op("ADMIN_REVOKE", "", "Revoked", 0, "", f.floor_taken_by)
                     /\ sent' = (IF IsSome(f.floor_taken_by)
                                 THEN send_to_user(unwrap(f.floor_taken_by), FloorRevoke("admin_revoke"))
                                 ELSE <<>>)
                                \o broadcast_to(ch.members, FloorIdle, None)
    /\ UNCHANGED <<now, users, session, by_ufrag, by_addr>>
    /\ UNCHANGED <<aux, dtls>>

----------------------------------------------------------------------------
(* media/net.rs: the UDP handlers; client u sends from the socket address u *)

Rtp(sender_user) == Pkt("RTP", sender_user, "", "", 0, 0)

\* DtlsSessionMap::inject: TRUE when the address has a session and the send on
\* its tx succeeds, which it does until the worker dropped the receiver
inject_ok(d, addr) == IsSome(d.sessions[addr]) /\ unwrap(d.sessions[addr]).pc # "over"

\* DtlsSessionMap::inject: the packet goes to the session's worker, if any
inject(d, addr, packet) ==
    IF inject_ok(d, addr)
    THEN [ d EXCEPT !.sessions[addr] =
             Some([ unwrap(@) EXCEPT !.inbox = Append(@, packet) ]) ]
    ELSE d

\* DtlsSessionMap::enqueue_pending: the packet joins the buffer of its address
enqueue_pending(d, addr, packet) ==
    [ d EXCEPT !.pending[addr] = Append(@, packet) ]

\* DtlsSessionMap::drain_pending: the buffer of the address is taken out whole
drain_pending(d, addr) ==
    [ d EXCEPT !.pending[addr] = <<>> ]

\* a worker start that hands over only the first of the initial packets
start_dtls_handshake_first_only(d, addr, ptr, initial) ==
    [ d EXCEPT !.sessions[addr] =
        Some([ endpoint |-> ptr, inbox |-> <<initial[1]>>, pc |-> "handshake" ]) ]

\* start_dtls_handshake: a session is registered for the address and its
\* worker is given the initial packets in order
start_dtls_handshake(d, addr, ptr, initial) ==
    [ d EXCEPT !.sessions[addr] =
        Some([ endpoint |-> ptr, inbox |-> initial, pc |-> "handshake" ]) ]

\* handle_stun: keepalive on a known address, else latch by ufrag and drain
\* the DTLS packets that were waiting for the latch
HandleStun(src_addr, ufrag) ==
    /\ IF IsSome(get_by_addr(src_addr))
       THEN /\ lastOp' = Op("STUN", src_addr, "Keepalive", 0, "", None)
            /\ UNCHANGED <<by_ufrag, by_addr, dtls>>
       ELSE IF by_ufrag[ufrag] = None
       THEN /\ lastOp' = Op("STUN", src_addr, "UnknownUfrag", 0, "", None)
            /\ UNCHANGED <<by_ufrag, by_addr, dtls>>
       ELSE LET pending == dtls.pending[src_addr]
                drained == drain_pending(dtls, src_addr)
                ep      == unwrap(hub_latch(by_ufrag, ufrag, src_addr)[ufrag])
            IN  /\ by_ufrag' = hub_latch(by_ufrag, ufrag, src_addr)
                /\ by_addr' = addr_latch(by_addr, by_ufrag, ufrag, src_addr)
                /\ dtls' = IF pending = <<>>
                           THEN drained
                           ELSE IF inject_ok(drained, src_addr)
                           THEN inject(drained, src_addr, pending[1])
                           ELSE start_dtls_handshake(drained, src_addr, ep.ptr, pending)
                /\ lastOp' = Op("STUN", src_addr, "Latched", 0, "", None)
    /\ sent' = <<>>
    /\ UNCHANGED <<now, channel, users, session>>
    /\ UNCHANGED aux

\* the DTLS records one run receives
MaxDtlsRecords == 2

\* handle_dtls: the record goes to the session of its address, else waits for
\* the latch, else starts the handshake worker of the latched endpoint
HandleDtls(src_addr) ==
    /\ dtls.arrived < MaxDtlsRecords
    /\ LET packet  == dtls.arrived + 1
           counted == [ dtls EXCEPT !.arrived = packet ]
       IN  IF inject_ok(dtls, src_addr)
           THEN /\ dtls' = inject(counted, src_addr, packet)
                /\ lastOp' = Op("DTLS", src_addr, "Injected", packet, "", None)
           ELSE IF get_by_addr(src_addr) = None
           THEN /\ dtls' = enqueue_pending(counted, src_addr, packet)
                /\ lastOp' = Op("DTLS", src_addr, "Pending", packet, "", None)
           ELSE /\ dtls' = start_dtls_handshake(counted, src_addr,
                               unwrap(get_by_addr(src_addr)).ptr, <<packet>>)
                /\ lastOp' = Op("DTLS", src_addr, "NewSession", packet, "", None)
    /\ sent' = <<>>
    /\ UNCHANGED <<now, channel, users, session, by_ufrag, by_addr>>
    /\ UNCHANGED aux

\* SrtpContext::install_key: the context is keyed unless Context::new fails,
\* and then it stays what it was
install_key(ready, ok) == ok \/ ready

\* the worker of a session that is at the given step
worker_at(addr, pc) ==
    /\ IsSome(dtls.sessions[addr])
    /\ unwrap(dtls.sessions[addr]).pc = pc

\* the worker's endpoint field after the write, as the maps show it
worker_write(addr, field, value) ==
    LET ptr == unwrap(dtls.sessions[addr]).endpoint IN
    /\ by_ufrag' = write_endpoint(by_ufrag, ptr, field, value)
    /\ by_addr' = write_endpoint(by_addr, ptr, field, value)

\* the value the worker's endpoint holds in a field; an endpoint no map holds
\* any more is read as unkeyed
worker_read(addr, field) ==
    LET ptr == unwrap(dtls.sessions[addr]).endpoint IN
    \/ \E k \in DOMAIN by_ufrag :
          IsSome(by_ufrag[k]) /\ unwrap(by_ufrag[k]).ptr = ptr /\ unwrap(by_ufrag[k])[field]
    \/ \E a \in DOMAIN by_addr :
          IsSome(by_addr[a]) /\ unwrap(by_addr[a]).ptr = ptr /\ unwrap(by_addr[a])[field]

\* do_handshake up to the first lock scope of init_srtp_contexts: the
\* handshake completed and the inbound context is installed, or not
InitSrtpInbound(addr, ok) ==
    /\ worker_at(addr, "handshake")
    /\ LET ready == install_key(worker_read(addr, "inbound_srtp"), ok) IN
       /\ worker_write(addr, "inbound_srtp", ready)
       /\ dtls' = IF ready
                  THEN [ dtls EXCEPT !.sessions[addr] =
                           Some([ unwrap(@) EXCEPT !.pc = "inbound" ]) ]
                  ELSE [ dtls EXCEPT !.sessions[addr] = None ]
       /\ lastOp' = Op("DTLS_WORKER", addr,
                       IF ready THEN "InboundInstalled" ELSE "InboundFailed",
                       0, "", None)
    /\ sent' = <<>>
    /\ UNCHANGED <<now, channel, users, session>>
    /\ UNCHANGED aux

\* the second lock scope of init_srtp_contexts: the outbound context
InitSrtpOutbound(addr, ok) ==
    /\ worker_at(addr, "inbound")
    /\ LET ready == install_key(worker_read(addr, "outbound_srtp"), ok) IN
       /\ worker_write(addr, "outbound_srtp", ready)
       /\ dtls' = IF ready
                  THEN [ dtls EXCEPT !.sessions[addr] =
                           Some([ unwrap(@) EXCEPT !.pc = "keyed" ]) ]
                  ELSE [ dtls EXCEPT !.sessions[addr] = None ]
       /\ lastOp' = Op("DTLS_WORKER", addr,
                       IF ready THEN "KeysInstalled" ELSE "OutboundFailed",
                       0, "", None)
    /\ sent' = <<>>
    /\ UNCHANGED <<now, channel, users, session>>
    /\ UNCHANGED aux

\* the worker's task ends: the handshake failed or timed out, or the read
\* loop after keying ended; the session leaves the map
DtlsSessionEnd(addr) ==
    /\ worker_at(addr, "handshake") \/ worker_at(addr, "keyed")
    /\ dtls' = [ dtls EXCEPT !.sessions[addr] = None ]
    /\ lastOp' = Op("DTLS_WORKER", addr, "SessionEnd", 0, "", None)
    /\ sent' = <<>>
    /\ UNCHANGED <<now, channel, users, session, by_ufrag, by_addr>>
    /\ UNCHANGED aux

\* a floor check that forgets to compare the holder with the sender
is_granted_any_holder(f, sender_user) ==
    f.state = "Taken"

\* the floor check of relay_to_channel, with the floor lock held
is_granted(f, sender_user) ==
    f.state = "Taken" /\ f.floor_taken_by = Some(sender_user)

\* a target loop that forgets to skip the sender's own endpoint
relay_targets_with_sender(sender_ufrag, channel_id, enc_fail) ==
    { k \in get_channel_endpoints(channel_id) :
        /\ IsSome(unwrap(by_ufrag[k]).address)
        /\ unwrap(by_ufrag[k]).outbound_srtp
        /\ k \notin enc_fail }

\* the endpoints relay_to_channel calls send_to for: the loop skips the
\* sender's ufrag, an endpoint without address and one whose outbound context
\* fails to encrypt (not keyed, or one of enc_fail, where srtp protect fails)
relay_targets(sender_ufrag, channel_id, enc_fail) ==
    { k \in get_channel_endpoints(channel_id) :
        /\ k # sender_ufrag
        /\ IsSome(unwrap(by_ufrag[k]).address)
        /\ unwrap(by_ufrag[k]).outbound_srtp
        /\ k \notin enc_fail }

\* relay_to_channel: the decision and the socket addresses the packet is sent
\* to; send_to fails for the addresses of send_fail, which is only logged
relay_to_channel(sender_user, sender_ufrag, channel_id, enc_fail, send_fail) ==
    IF channel = None \/ channel_id # CH
    THEN [ action |-> "ChannelNotFound", to |-> {} ]
    ELSE IF ~is_granted(unwrap(channel).floor, sender_user)
    THEN [ action |-> "FloorNotGranted", to |-> {} ]
    ELSE [ action |-> "Relayed",
           to     |-> { unwrap(unwrap(by_ufrag[k]).address) :
                          k \in relay_targets(sender_ufrag, channel_id, enc_fail) }
                      \ send_fail ]

\* handle_srtp; kind is what the packet turns out to be: "Rtp", "Rtcp" or "Err";
\* enc_fail and send_fail are the targets whose encrypt and send_to fail
HandleSrtp(src_addr, kind, enc_fail, send_fail) ==
    /\ LET e == get_by_addr(src_addr) IN
       IF e = None
       THEN /\ lastOp' = Op("SRTP", src_addr, "UnknownAddr", 0, "", None)
            /\ sent' = <<>>
       ELSE LET ep == unwrap(e) IN
            IF ~ep.inbound_srtp
            THEN /\ lastOp' = Op("SRTP", ep.user_id, "KeyNotInstalled", 0, "", None)
                 /\ sent' = <<>>
            ELSE IF kind # "Rtp"
            THEN /\ lastOp' = Op("SRTP", ep.user_id, kind, 0, "", None)
                 /\ sent' = <<>>
            ELSE LET r == relay_to_channel(ep.user_id, ep.ufrag, ep.channel_id,
                                           enc_fail, send_fail)
                 IN  /\ lastOp' = [ Op("SRTP", ep.user_id, r.action, 0, "", None)
                                      EXCEPT !.prior = Some([ src_addr  |-> src_addr,
                                                              enc_fail  |-> enc_fail,
                                                              send_fail |-> send_fail ]) ]
                     /\ sent' = IF r.to = {} THEN <<>> ELSE << Snd(r.to, Rtp(ep.user_id)) >>
    /\ UNCHANGED <<now, channel, users, session, by_ufrag, by_addr>>
    /\ UNCHANGED <<aux, dtls>>

----------------------------------------------------------------------------
(* Spec: the connection lifecycle and every signaling handler, from the state
   after construction, over the connections of ConnUsers *)

ConnUsers == {"A", "B"}

PayloadPriorities == {None} \cup { Some(p) : p \in ReqPriorities }

\* payload.indicator: Option<FloorIndicatorDto>
PayloadIndicators == {None, Some("Emergency")}

Next ==
    \/ \E c \in ConnUsers : Connect(c)
    \/ \E c \in ConnUsers : RxLoopEnd(c)
    \/ \E c \in ConnUsers, op \in ClientOpcodes : NotAuthenticated(c, op)
    \/ \E c \in ConnUsers : HandleHeartbeat(c)
    \/ \E c \in ConnUsers, token \in Tokens : HandleIdentify(c, token, None)
    \/ \E c \in ConnUsers : HandleChannelCreate(c)
    \/ \E c \in ConnUsers : HandleChannelDelete(c)
    \/ \E c \in ConnUsers : HandleChannelJoin(c)
    \/ \E c \in ConnUsers : HandleChannelLeave(c)
    \/ \E c \in ConnUsers, i \in PayloadIndicators : HandleFloorRequest(c, None, i)
    \/ \E c \in ConnUsers : HandleFloorRelease(c)
    \/ \E c \in ConnUsers : HandleFloorPing(c)
    \/ \E c \in ConnUsers : Close(c)
    \/ CheckFloorTimeouts
    \/ AdminFloorRevoke

Spec == Init /\ [][Next]_vars

----------------------------------------------------------------------------
(* FloorSpec: the floor engine of one channel with three identified users,
   A and B joined and C not, under every FLOOR_REQUEST payload, the clock,
   disconnects, the reaper's timeout check and admin revoke *)

Registered == Some([ priority |-> FLOOR_PRIORITY_DEFAULT ])

FloorMembers == {"A", "B"}

FloorInit ==
    /\ now = 0
    /\ channel = Some([ Channel_new(PRESET_CAPACITY) EXCEPT !.members = FloorMembers ])
    /\ users = [ u \in Users |-> Registered ]
    /\ session = [ c \in Users |->
                     IF c \in FloorMembers
                     THEN [ Session_new EXCEPT !.user_id = Some(c),
                                               !.current_channel = Some(CH),
                                               !.current_ufrag = Some(<<c, 1>>) ]
                     ELSE [ Session_new EXCEPT !.user_id = Some(c) ] ]
    /\ by_ufrag = [ k \in Ufrags |->
                     IF k[1] \in FloorMembers /\ k[2] = 1
                     THEN Some(Endpoint_new(<<k, 1>>, k, k[1], CH))
                     ELSE None ]
    /\ by_addr = [ a \in Users |-> None ]
    /\ lastOp = Op("INIT", "", "", 0, "", None)
    /\ sent = <<>>
    /\ AuxInit

FloorNext ==
    \/ Tick
    \/ \E c \in Users, p \in PayloadPriorities, i \in PayloadIndicators :
           HandleFloorRequest(c, p, i)
    \/ \E c \in Users : HandleFloorRelease(c)
    \/ \E c \in Users : HandleFloorPing(c)
    \/ \E c \in Users : Close(c)
    \/ CheckFloorTimeouts
    \/ AdminFloorRevoke

FloorSpec == FloorInit /\ [][FloorNext]_vars

----------------------------------------------------------------------------
(* QueueSpec: the queue of the same channel under requests of two priorities
   and two indicators that never preempt by indicator, as the clock advances *)

QueueIndicators == {None, Some("Broadcast")}

QueueNext ==
    \/ Tick
    \/ \E c \in Users, p \in PayloadPriorities, i \in QueueIndicators :
           HandleFloorRequest(c, p, i)
    \/ \E c \in Users : HandleFloorRelease(c)
    \/ \E c \in FloorMembers : Close(c)

QueueSpec == FloorInit /\ [][QueueNext]_vars

----------------------------------------------------------------------------
(* MediaSpec: the media path of the same channel: STUN latch, DTLS keying and
   SRTP relay, with the floor changing hands and the channel deleted; a
   latched address sends the one DTLS record that opens its handshake, and
   the keys install *)

PacketKinds == {"Rtp", "Rtcp", "Err"}

MediaNext ==
    \/ \E a \in FloorMembers : HandleStun(a, <<a, 1>>)
    \/ \E a \in FloorMembers : IsSome(get_by_addr(a)) /\ ~inject_ok(dtls, a) /\ HandleDtls(a)
    \/ \E a \in FloorMembers : InitSrtpInbound(a, TRUE)
    \/ \E a \in FloorMembers : InitSrtpOutbound(a, TRUE)
    \/ \E a \in FloorMembers, kind \in PacketKinds : HandleSrtp(a, kind, {}, {})
    \/ \E c \in Users : HandleFloorRequest(c, None, None)
    \/ \E c \in Users : HandleFloorRelease(c)
    \/ \E c \in FloorMembers : HandleChannelLeave(c)
    \/ \E c \in FloorMembers : HandleChannelDelete(c)
    \/ \E c \in FloorMembers : Close(c)

MediaSpec == FloorInit /\ [][MediaNext]_vars

----------------------------------------------------------------------------
(* PreemptSpec: FloorControl::can_preempt on every floor it can be asked about *)

Indicators == {"Normal", "Broadcast", "ImminentPeril", "Emergency"}

Priorities == 0..U8_MAX

PreemptInit ==
    /\ now = 0
    /\ \E f \in {FloorControl_new} \cup { grant(FloorControl_new, "A", p, "Normal") : p \in Priorities } :
           channel = Some([ Channel_new(PRESET_CAPACITY) EXCEPT !.members = FloorMembers, !.floor = f ])
    /\ users = [ u \in Users |-> Registered ]
    /\ session = [ c \in Users |-> Session_closed ]
    /\ by_ufrag = [ k \in Ufrags |-> None ]
    /\ by_addr = [ a \in Users |-> None ]
    /\ lastOp = Op("INIT", "", "", 0, "", None)
    /\ sent = <<>>
    /\ AuxInit

\* one call of can_preempt on the floor drawn by PreemptInit
CanPreempt(req_priority, req_indicator) ==
    /\ lastOp.op = "INIT"
    /\ lastOp' = Op("can_preempt", "",
                    IF can_preempt(unwrap(channel).floor, req_priority, req_indicator)
                    THEN "true" ELSE "false",
                    req_priority, req_indicator, unwrap(channel).floor.floor_taken_by)
    /\ UNCHANGED <<now, channel, users, session, by_ufrag, by_addr, sent>>
    /\ UNCHANGED <<aux, dtls>>

PreemptNext == \E p \in Priorities, i \in Indicators : CanPreempt(p, i)

PreemptSpec == PreemptInit /\ [][PreemptNext]_vars

----------------------------------------------------------------------------
(* ReleaseSpec: four members A, B, C and D of one channel, identified with the
   priorities 200, 150, 100 and 200, requesting with their own priority and
   releasing *)

ReleaseUsers == Users \cup {"D"}

\* IdentifyPayload.priority of each user
ReleasePriority == [ u \in ReleaseUsers |->
                       IF u = "B" THEN 150 ELSE IF u = "C" THEN 100 ELSE 200 ]

ReleaseInit ==
    /\ now = 0
    /\ channel = Some([ Channel_new(PRESET_CAPACITY) EXCEPT !.members = ReleaseUsers ])
    /\ users = [ u \in ReleaseUsers |-> Some([ priority |-> ReleasePriority[u] ]) ]
    /\ session = [ c \in ReleaseUsers |->
                     [ Session_new EXCEPT !.user_id = Some(c),
                                          !.current_channel = Some(CH),
                                          !.current_ufrag = Some(<<c, 1>>) ] ]
    /\ by_ufrag = [ k \in ReleaseUsers \X (1..MaxUfrag) |->
                     IF k[2] = 1
                     THEN Some(Endpoint_new(<<k, 1>>, k, k[1], CH))
                     ELSE None ]
    /\ by_addr = [ a \in ReleaseUsers |-> None ]
    /\ lastOp = Op("INIT", "", "", 0, "", None)
    /\ sent = <<>>
    /\ AuxInit

ReleaseNext ==
    \/ \E c \in ReleaseUsers, i \in QueueIndicators : HandleFloorRequest(c, None, i)
    \/ \E c \in ReleaseUsers : HandleFloorRelease(c)

ReleaseSpec == ReleaseInit /\ [][ReleaseNext]_vars

----------------------------------------------------------------------------
(* ReaperSpec: the floor of the same channel over 50 seconds, with the
   reaper's interval timer: the floor check runs at every multiple of
   REAPER_INTERVAL_MS before the clock moves on, and may run at any other
   time too *)

\* the next tick of the reaper's tokio interval
next_reaper_tick == ((now \div REAPER_INTERVAL_MS) + 1) * REAPER_INTERVAL_MS

\* time passes, up to the reaper's next tick; it passes a tick only after the
\* floor check of that tick
Advance ==
    /\ now < MaxNow
    /\ (now > 0 /\ now % REAPER_INTERVAL_MS = 0) => lastOp.op = "FLOOR_TIMEOUTS"
    /\ now' = IF now + TickMs < next_reaper_tick THEN now + TickMs ELSE next_reaper_tick
    /\ lastOp' = Op("TICK", "", "", 0, "", None)
    /\ sent' = <<>>
    /\ UNCHANGED <<channel, users, session, by_ufrag, by_addr>>
    /\ UNCHANGED <<aux, dtls>>

ReaperNext ==
    \/ Advance
    \/ \E c \in FloorMembers, i \in PayloadIndicators : HandleFloorRequest(c, None, i)
    \/ \E c \in FloorMembers : HandleFloorPing(c)
    \/ CheckFloorTimeouts

ReaperSpec == FloorInit /\ [][ReaperNext]_vars

----------------------------------------------------------------------------
(* HubSpec: MediaPeerHub under every sequence of insert, latch and remove on
   two ufrags and two socket addresses, from the empty hub *)

HubUfrags == { <<"A", 1>>, <<"B", 1>> }

HubAddrs == {"A", "B"}

\* hub.insert(ufrag, ice_pwd, user_id, channel_id)
HubInsert(ufrag) ==
    /\ by_ufrag' = hub_insert(by_ufrag, by_addr, ufrag, ufrag[1], CH)
    /\ lastOp' = Op("insert", ufrag[1], "", ufrag[2], "", None)
    /\ sent' = <<>>
    /\ UNCHANGED <<now, channel, users, session, by_addr>>
    /\ UNCHANGED <<aux, dtls>>

\* hub.latch(ufrag, addr)
HubLatch(ufrag, addr) ==
    /\ by_ufrag' = hub_latch(by_ufrag, ufrag, addr)
    /\ by_addr' = addr_latch(by_addr, by_ufrag, ufrag, addr)
    /\ lastOp' = Op("latch", ufrag[1], addr, ufrag[2], "", None)
    /\ sent' = <<>>
    /\ UNCHANGED <<now, channel, users, session>>
    /\ UNCHANGED <<aux, dtls>>

\* hub.remove(ufrag)
HubRemove(ufrag) ==
    /\ by_ufrag' = hub_remove(by_ufrag, Some(ufrag))
    /\ by_addr' = addr_remove(by_addr, by_ufrag, Some(ufrag))
    /\ lastOp' = Op("remove", ufrag[1], "", ufrag[2], "", None)
    /\ sent' = <<>>
    /\ UNCHANGED <<now, channel, users, session>>
    /\ UNCHANGED <<aux, dtls>>

HubNext ==
    \/ \E k \in HubUfrags : HubInsert(k)
    \/ \E k \in HubUfrags, a \in HubAddrs : HubLatch(k, a)
    \/ \E k \in HubUfrags : HubRemove(k)

HubSpec == Init /\ [][HubNext]_vars

----------------------------------------------------------------------------
(* CapacitySpec: Channel::add_member and Channel::remove_member on a channel
   created with any capacity up to MaxCapacity.  add_member holds the write
   lock of members from the capacity test to the insert, so concurrent calls
   are serialised and each call is one step. *)

CapacityUsers == ReleaseUsers \cup {"E"}

CapacityInit ==
    /\ now = 0
    /\ \E capacity \in 0..MaxCapacity : channel = Some(Channel_new(capacity))
    /\ users = [ u \in Users |-> None ]
    /\ session = [ c \in Users |-> Session_closed ]
    /\ by_ufrag = [ k \in Ufrags |-> None ]
    /\ by_addr = [ a \in Users |-> None ]
    /\ lastOp = Op("INIT", "", "", 0, "", None)
    /\ sent = <<>>
    /\ AuxInit

\* ch.add_member(user_id)
AddMember(user_id) ==
    /\ LET ch  == unwrap(channel)
           err == add_member_error(ch, user_id)
       IN  /\ channel' = IF err # "" THEN channel
                         ELSE Some([ ch EXCEPT !.members = @ \cup {user_id} ])
           /\ lastOp' = Op("add_member", user_id, IF err # "" THEN err ELSE "Ok", 0, "", None)
    /\ sent' = <<>>
    /\ UNCHANGED <<now, users, session, by_ufrag, by_addr>>
    /\ UNCHANGED <<aux, dtls>>

\* ch.remove_member(user_id)
RemoveMember(user_id) ==
    /\ channel' = Some([ unwrap(channel) EXCEPT !.members = @ \ {user_id} ])
    /\ lastOp' = Op("remove_member", user_id, "", 0, "", None)
    /\ sent' = <<>>
    /\ UNCHANGED <<now, users, session, by_ufrag, by_addr>>
    /\ UNCHANGED <<aux, dtls>>

CapacityNext ==
    \/ \E u \in CapacityUsers : AddMember(u)
    \/ \E u \in CapacityUsers : RemoveMember(u)

CapacitySpec == CapacityInit /\ [][CapacityNext]_vars

----------------------------------------------------------------------------
(* UserHubSpec: UserHub under every sequence of register and unregister, from
   the empty hub.  lastOp.prior of a register is the count before it; the
   indicator of an unregister tells whether the call before it was a register
   of the same id, and of what kind. *)

RegisterPriorities == {50, 200}

Register(user_id, priority) ==
    /\ users' = register(users, user_id, priority)
    /\ lastOp' = [ Op("register", user_id,
                      IF IsSome(users[user_id]) THEN "replaced" ELSE "new",
                      priority, "", None)
                   EXCEPT !.prior = Some(count(users)) ]
    /\ sent' = <<>>
    /\ UNCHANGED <<now, channel, session, by_ufrag, by_addr>>
    /\ UNCHANGED <<aux, dtls>>

Unregister(user_id) ==
    /\ users' = unregister(users, user_id)
    /\ lastOp' = Op("unregister", user_id,
                    IF IsSome(users[user_id]) THEN "removed" ELSE "absent", 0,
                    IF lastOp.op = "register" /\ lastOp.user = user_id
                    THEN lastOp.action ELSE "",
                    None)
    /\ sent' = <<>>
    /\ UNCHANGED <<now, channel, session, by_ufrag, by_addr>>
    /\ UNCHANGED <<aux, dtls>>

UserHubNext ==
    \/ \E u \in Users, p \in RegisterPriorities : Register(u, p)
    \/ \E u \in Users : Unregister(u)

UserHubSpec == Init /\ [][UserHubNext]_vars

----------------------------------------------------------------------------
(* ChannelHubSpec: ChannelHub::create and ChannelHub::remove for one
   channel_id, with members joining and leaving the channel in between, from
   the hub holding the preset channel *)

CreateCapacities == {2, 3}

Create(capacity) ==
    /\ channel' = create(channel, capacity)
    /\ lastOp' = Op("create", "", IF IsSome(channel) THEN "existing" ELSE "created",
                    capacity, "", None)
    /\ sent' = <<>>
    /\ UNCHANGED <<now, users, session, by_ufrag, by_addr>>
    /\ UNCHANGED <<aux, dtls>>

Remove ==
    /\ channel' = remove(channel)
    /\ lastOp' = Op("remove", "", IF remove_result(channel) THEN "true" ELSE "false",
                    0, "", None)
    /\ sent' = <<>>
    /\ UNCHANGED <<now, users, session, by_ufrag, by_addr>>
    /\ UNCHANGED <<aux, dtls>>

ChannelHubNext ==
    \/ \E capacity \in CreateCapacities : Create(capacity)
    \/ Remove
    \/ \E u \in Users : IsSome(channel) /\ AddMember(u)
    \/ \E u \in Users : IsSome(channel) /\ RemoveMember(u)

ChannelHubSpec == Init /\ [][ChannelHubNext]_vars

----------------------------------------------------------------------------
(* BroadcastSpec: one call of UserHub::broadcast_to at a time, step by step,
   against the bounded outbound queues of the three registered users.  Each
   rx_loop takes frames off its queue when its client accepts them, in any
   interleaving with the broadcast, and may end. *)

\* the orders in which the filter over the HashSet may yield the recipients
Orders(S) ==
    { o \in [1..Cardinality(S) -> S] : \A i, j \in 1..Cardinality(S) : o[i] = o[j] => i = j }

\* tx.send(json).await returns at once: Err when the receiver is gone, Ok when
\* the queue has room; on a full queue it waits for room
send_ready(u) == ~session[u].rx \/ Len(outq[u]) < EgressQueueSize

\* broadcast_to up to the loop: the senders of the addressed, registered users
BroadcastCall(user_ids, exclude) ==
    /\ bcast = None
    /\ \E txs \in Orders(broadcast_targets(user_ids, exclude)) :
           bcast' = Some([ pkt |-> FloorIdle, txs |-> txs, delivered |-> {}, failed |-> {} ])
    /\ lastOp' = Op("broadcast_to", "", "", 0, "", exclude)
    /\ sent' = <<>>
    /\ UNCHANGED <<now, channel, users, session, by_ufrag, by_addr, outq, dtls, inflight,
                 admin, last_seen, user_tx, lk, other_members>>

\* one iteration of the loop: user.tx.send(packet_json).await
BroadcastSend ==
    /\ IsSome(bcast)
    /\ unwrap(bcast).txs # <<>>
    /\ LET b == unwrap(bcast)
           u == Head(b.txs)
       IN  /\ send_ready(u)
           /\ IF ~session[u].rx
              THEN /\ bcast' = Some([ b EXCEPT !.txs = Tail(@), !.failed = @ \cup {u} ])
                   /\ lastOp' = Op("broadcast_send", u, "rx closed", 0, "", None)
                   /\ UNCHANGED outq
              ELSE /\ bcast' = Some([ b EXCEPT !.txs = Tail(@), !.delivered = @ \cup {u} ])
                   /\ outq' = [ outq EXCEPT ![u] = Append(@, b.pkt) ]
                   /\ lastOp' = Op("broadcast_send", u, "Ok", 0, "", None)
    /\ sent' = <<>>
    /\ UNCHANGED <<now, channel, users, session, by_ufrag, by_addr, dtls, inflight,
                 admin, last_seen, user_tx, lk, other_members>>

\* the loop is over and broadcast_to returns
BroadcastReturn ==
    /\ IsSome(bcast)
    /\ unwrap(bcast).txs = <<>>
    /\ bcast' = None
    /\ lastOp' = Op("broadcast_return", "", "", 0, "", None)
    /\ sent' = <<>>
    /\ UNCHANGED <<now, channel, users, session, by_ufrag, by_addr, outq, dtls, inflight,
                 admin, last_seen, user_tx, lk, other_members>>

\* rx_loop of u: broadcast_rx.recv() yields a frame and ws_tx.send accepts it
RxLoopRecv(u) ==
    /\ session[u].rx
    /\ outq[u] # <<>>
    /\ outq' = [ outq EXCEPT ![u] = Tail(@) ]
    /\ lastOp' = Op("rx_loop", u, "", 0, "", None)
    /\ sent' = <<>>
    /\ UNCHANGED <<now, channel, users, session, by_ufrag, by_addr, bcast, dtls, inflight,
                 admin, last_seen, user_tx, lk, other_members>>

BroadcastNext ==
    \/ \E user_ids \in SUBSET Users, exclude \in {None} \cup { Some(u) : u \in Users } :
          BroadcastCall(user_ids, exclude)
    \/ BroadcastSend
    \/ BroadcastReturn
    \/ \E u \in Users : RxLoopRecv(u)
    \/ \E u \in Users : RxLoopEnd(u)

BroadcastSpec == FloorInit /\ [][BroadcastNext]_vars

----------------------------------------------------------------------------
(* DtlsSpec: the UDP loop and the handshake workers of the two members'
   addresses: DTLS records before and after the STUN latch by either member's
   ufrag, every outcome of the two key installs, sessions ending, and members
   leaving and rejoining *)

DtlsNext ==
    \/ \E a \in FloorMembers, k \in FloorMembers \X (1..MaxUfrag) : HandleStun(a, k)
    \/ \E a \in FloorMembers : HandleDtls(a)
    \/ \E a \in FloorMembers, ok \in BOOLEAN : InitSrtpInbound(a, ok)
    \/ \E a \in FloorMembers, ok \in BOOLEAN : InitSrtpOutbound(a, ok)
    \/ \E a \in FloorMembers : DtlsSessionEnd(a)
    \/ \E a \in FloorMembers : HandleSrtp(a, "Rtp", {}, {})
    \/ \E c \in FloorMembers : HandleChannelLeave(c)
    \/ \E c \in FloorMembers : HandleChannelJoin(c)

DtlsSpec == FloorInit /\ [][DtlsNext]_vars

----------------------------------------------------------------------------
(* RelaySpec: relay_to_channel over every hub of three endpoints: A and B in
   the channel, C in it or in another one, each endpoint unkeyed, keyed
   inbound only or keyed both ways; the floor changes hands, the endpoints
   are latched to their addresses, and each packet comes with the target
   whose encrypt or send_to fails *)

OTHER_CH == "CH_0002"

\* (inbound_srtp, outbound_srtp) as init_srtp_contexts can leave them
KeyStates == { <<FALSE, FALSE>>, <<TRUE, FALSE>>, <<TRUE, TRUE>> }

RelayEndpoint(u, channel_id, keys) ==
    [ Endpoint_new(<<<<u, 1>>, 1>>, <<u, 1>>, u, channel_id)
        EXCEPT !.inbound_srtp = keys[1], !.outbound_srtp = keys[2] ]

RelayInit ==
    \E chC \in {CH, OTHER_CH}, keys \in [Users -> KeyStates] :
        LET ch_of(u) == IF u = "C" THEN chC ELSE CH
            members  == { u \in Users : ch_of(u) = CH }
        IN  /\ now = 0
            /\ channel = Some([ Channel_new(PRESET_CAPACITY) EXCEPT !.members = members ])
            /\ users = [ u \in Users |-> Registered ]
            /\ session = [ c \in Users |->
                             [ Session_new EXCEPT !.user_id = Some(c),
                                                  !.current_channel = Some(ch_of(c)),
                                                  !.current_ufrag = Some(<<c, 1>>) ] ]
            /\ by_ufrag = [ k \in Ufrags |->
                             IF k[2] = 1
                             THEN Some(RelayEndpoint(k[1], ch_of(k[1]), keys[k[1]]))
                             ELSE None ]
            /\ by_addr = [ a \in Users |-> None ]
            /\ lastOp = Op("INIT", "", "", 0, "", None)
            /\ sent = <<>>
            /\ AuxInit

\* at most one target whose encrypt fails, and one whose send_to fails
RelayEncFail == { {} } \cup { {<<u, 1>>} : u \in Users }

RelaySendFail == { {} } \cup { {u} : u \in Users }

RelayNext ==
    \/ \E a \in Users : HandleStun(a, <<a, 1>>)
    \/ \E a \in Users, enc_fail \in RelayEncFail, send_fail \in RelaySendFail :
          HandleSrtp(a, "Rtp", enc_fail, send_fail)
    \/ \E c \in FloorMembers : HandleFloorRequest(c, None, None)
    \/ \E c \in FloorMembers : HandleFloorRelease(c)

RelaySpec == RelayInit /\ [][RelayNext]_vars

----------------------------------------------------------------------------
(* OrderSpec: the floor handlers of the two members' connections as they run:
   the section under the floor lock is one step, and each send that follows
   the release of the lock is a step of its own, so that the sends of two
   handlers interleave; the outbound tasks drain the queues *)

\* the sends a handler has ahead of it: a broadcast to nobody sends nothing
has_recipient(e) == e.to # {}

owned_buffer(frames) == SelectSeq(frames, has_recipient)

\* handle_floor_request up to the release of the floor lock
FloorRequestLocked(c, payload_indicator) ==
    /\ session[c].open /\ gate_passes(c, "FLOOR_REQUEST")
    /\ inflight[c] = <<>>
    /\ IsSome(channel)
    /\ LET user_id   == unwrap(session[c].user_id)
           priority  == request_priority(user_id, None)
           indicator == request_indicator(payload_indicator)
           ch        == unwrap(channel)
           r         == floor_request_locked(ch.floor, user_id, priority, indicator)
       IN  /\ channel' = Some([ ch EXCEPT !.floor = r.floor ])
           /\ inflight' = [ inflight EXCEPT ![c] =
                              owned_buffer(floor_request_sends(c, user_id, indicator, ch.members, r)) ]
           /\ lastOp' = Op("FLOOR_REQUEST", c, r.action, priority, indicator, r.old_holder)
    /\ sent' = <<>>
    /\ UNCHANGED <<now, users, session, by_ufrag, by_addr, outq, bcast, dtls,
                 admin, last_seen, user_tx, lk, other_members>>

\* handle_floor_release of the holder up to the release of the floor lock
FloorReleaseLocked(c) ==
    /\ session[c].open /\ gate_passes(c, "FLOOR_RELEASE")
    /\ inflight[c] = <<>>
    /\ IsSome(channel)
    /\ LET user_id == unwrap(session[c].user_id)
           ch      == unwrap(channel)
           d       == decide_next(ch.floor, ch.members)
       IN  /\ is_holder(ch.floor, user_id)
           /\ channel' = Some([ ch EXCEPT !.floor = d.floor ])
           /\ inflight' = [ inflight EXCEPT ![c] =
                              owned_buffer(dispatch_packets(d.packets, ch.members)) ]
           /\ lastOp' = Op("FLOOR_RELEASE", c, "Released", 0, "", ch.floor.floor_taken_by)
    /\ sent' = <<>>
    /\ UNCHANGED <<now, users, session, by_ufrag, by_addr, outq, bcast, dtls,
                 admin, last_seen, user_tx, lk, other_members>>

\* the handler of connection c sends the next frame to one of its recipients:
\* tx.send(json).await, which waits while the recipient's queue is full
HandlerSend(c, u) ==
    /\ inflight[c] # <<>>
    /\ LET head == Head(inflight[c])
           rest == head.to \ {u}
       IN  /\ u \in head.to
           /\ send_ready(u)
           /\ outq' = IF session[u].rx THEN [ outq EXCEPT ![u] = Append(@, head.pkt) ] ELSE outq
           /\ inflight' = [ inflight EXCEPT ![c] =
                              IF rest = {} THEN Tail(@)
                              ELSE << [ head EXCEPT !.to = rest ] >> \o Tail(@) ]
           /\ lastOp' = Op("handler_send", c, head.pkt.op, 0, "", Some(u))
    /\ sent' = << Snd({u}, Head(inflight[c]).pkt) >>
    /\ UNCHANGED <<now, channel, users, session, by_ufrag, by_addr, bcast, dtls,
                 admin, last_seen, user_tx, lk, other_members>>

OrderNext ==
    \/ \E c \in FloorMembers, i \in PayloadIndicators : FloorRequestLocked(c, i)
    \/ \E c \in FloorMembers : FloorReleaseLocked(c)
    \/ \E c \in FloorMembers, u \in Users : HandlerSend(c, u)
    \/ \E u \in FloorMembers : RxLoopRecv(u)

OrderSpec == FloorInit /\ [][OrderNext]_vars

----------------------------------------------------------------------------
(* DemuxSpec: one iteration of the UDP loop on every datagram of at most one
   byte, with the trace level on or off *)

Bytes == 0..255

Datagrams == { <<>> } \cup { <<b>> : b \in Bytes }

\* classify: buf.first() matched against the ranges, in the order of the arms
classify(buf) ==
    IF buf = <<>> THEN "Unknown"
    ELSE IF buf[1] <= 3 THEN "Stun"
    ELSE IF buf[1] >= 20 /\ buf[1] <= 63 THEN "Dtls"
    ELSE IF buf[1] >= 128 THEN "Srtp"
    ELSE "Unknown"

\* the handler the loop of run_udp_relay runs for the datagram; trace!(..,
\* packet[0]) comes before the is_empty check and indexes the packet when the
\* trace level is enabled
dispatch(packet, trace_enabled) ==
    IF trace_enabled /\ packet = <<>> THEN "panic"
    ELSE IF packet = <<>> THEN "drop"
    ELSE IF classify(packet) = "Stun" THEN "handle_stun"
    ELSE IF classify(packet) = "Dtls" THEN "handle_dtls"
    ELSE IF classify(packet) = "Srtp" THEN "handle_srtp"
    ELSE "drop"

RecvFrom(packet, trace_enabled) ==
    /\ lastOp' = [ Op("UDP", "", dispatch(packet, trace_enabled), 0, "", None)
                     EXCEPT !.prior = Some(packet) ]
    /\ sent' = <<>>
    /\ UNCHANGED <<now, channel, users, session, by_ufrag, by_addr>>
    /\ UNCHANGED <<aux, dtls>>

DemuxNext == \E packet \in Datagrams, trace_enabled \in BOOLEAN : RecvFrom(packet, trace_enabled)

DemuxSpec == FloorInit /\ [][DemuxNext]_vars

----------------------------------------------------------------------------
(* RevokeSpec: admin_floor_revoke beside the floor handlers of the members.
   The handler reads the floor in one lock scope and clears it in another;
   the runtime is multi-threaded, so a floor handler of a connection may take
   the floor lock between the two *)

\* admin_floor_revoke up to the end of its first lock scope: (was_taken,
\* holder) read under the floor lock, 409 when the floor is not Taken
AdminRevokeRead ==
    /\ admin = None
    /\ IsSome(channel)
    /\ LET f == unwrap(channel).floor IN
       IF f.state # "Taken"
       THEN /\ lastOp' = Op("ADMIN_REVOKE", "", "Conflict", 0, "", f.floor_taken_by)
            /\ UNCHANGED admin
       ELSE /\ lastOp' = Op("ADMIN_REVOKE", "", "Read", 0, "", f.floor_taken_by)
            /\ admin' = Some(f.floor_taken_by)
    /\ sent' = <<>>
    /\ UNCHANGED <<now, channel, users, session, by_ufrag, by_addr>>
    /\ UNCHANGED <<outq, bcast, inflight, last_seen, user_tx, lk, other_members, dtls>>

\* the rest of admin_floor_revoke: queue.clear() and clear_taken() in the
\* second lock scope, FLOOR_REVOKE to the holder read in the first scope,
\* FLOOR_IDLE to the members; prior records the floor as the second scope
\* found it
AdminRevokeClear ==
    /\ IsSome(admin)
    /\ IsSome(channel)
    /\ LET ch     == unwrap(channel)
           f      == ch.floor
           holder == unwrap(admin)
       IN  /\ channel' = Some([ ch EXCEPT !.floor = clear_taken(queue_clear(f)) ])
           /\ lastOp' = [ Op("ADMIN_REVOKE", "", "Revoked", 0, "", holder)
                            EXCEPT !.prior = Some([ state |-> f.state,
                                                    floor_taken_by |-> f.floor_taken_by ]) ]
           /\ sent' = (IF IsSome(holder)
                       THEN send_to_user(unwrap(holder), FloorRevoke("admin_revoke"))
                       ELSE <<>>)
                      \o broadcast_to(ch.members, FloorIdle, None)
    /\ admin' = None
    /\ UNCHANGED <<now, users, session, by_ufrag, by_addr>>
    /\ UNCHANGED <<outq, bcast, inflight, last_seen, user_tx, lk, other_members, dtls>>

RevokeNext ==
    \/ \E c \in FloorMembers, p \in PayloadPriorities, i \in PayloadIndicators :
           HandleFloorRequest(c, p, i)
    \/ \E c \in FloorMembers : HandleFloorRelease(c)
    \/ AdminRevokeRead
    \/ AdminRevokeClear

RevokeSpec == FloorInit /\ [][RevokeNext]_vars

----------------------------------------------------------------------------
(* WorkerSpec: the handshake workers of two addresses with the end of a worker
   in its two steps: the timeout(.., do_handshake(..)) future ends, which
   drops the receiver of the session's packets, and then the task calls
   session_map.remove(&peer_addr); the UDP loop and the reaper run between
   the two *)

\* a HashMap::remove that removes nothing
sessions_remove_keeps(d, addr) == d

\* sessions.remove(addr), as DtlsSessionMap::remove and remove_stale call it
sessions_remove(d, addr) == [ d EXCEPT !.sessions[addr] = None ]

\* the future of the worker ends: do_handshake returned (handshake or key
\* installation failed, or the read loop ended) or DTLS_HANDSHAKE_TIMEOUT_MS
\* passed; the adapter and its receiver are dropped, and the task owes its
\* session_map.remove
WorkerFutureEnds(addr) ==
    /\ IsSome(dtls.sessions[addr])
    /\ unwrap(dtls.sessions[addr]).pc # "over"
    /\ dtls' = [ dtls EXCEPT !.sessions[addr] = Some([ unwrap(@) EXCEPT !.pc = "over" ]),
                             !.owing[addr] = @ + 1 ]
    /\ lastOp' = Op("DTLS_WORKER", addr, "FutureEnded", 0, "", None)
    /\ sent' = <<>>
    /\ UNCHANGED <<now, channel, users, session, by_ufrag, by_addr>>
    /\ UNCHANGED aux

\* session_map2.remove(&peer_addr) of a worker whose future ended: the entry
\* of the address goes, whichever session it holds. A live session that
\* loses its entry loses the only sender of its packets: its worker's future
\* ends on the closed channel and that worker owes its own remove.
WorkerRemove(addr) ==
    /\ dtls.owing[addr] > 0
    /\ LET entry == dtls.sessions[addr]
           live  == IsSome(entry) /\ unwrap(entry).pc # "over"
           d     == sessions_remove(dtls, addr)
       IN  /\ dtls' = IF live THEN d ELSE [ d EXCEPT !.owing[addr] = @ - 1 ]
           /\ lastOp' = [ Op("DTLS_WORKER", addr, "Removed", 0, "", None)
                            EXCEPT !.prior = Some(entry) ]
    /\ sent' = <<>>
    /\ UNCHANGED <<now, channel, users, session, by_ufrag, by_addr>>
    /\ UNCHANGED aux

RECURSIVE remove_all(_, _)
remove_all(d, addrs) ==
    IF addrs = {} THEN d
    ELSE LET a == CHOOSE x \in addrs : TRUE IN
         remove_all(sessions_remove(d, a), addrs \ {a})

\* DtlsSessionMap::remove_stale, step 3 of the reaper's tick: the entries
\* whose tx is closed are removed
RemoveStale ==
    /\ LET stale == { a \in DOMAIN dtls.sessions :
                        IsSome(dtls.sessions[a]) /\ unwrap(dtls.sessions[a]).pc = "over" }
       IN  /\ stale # {}
           /\ dtls' = remove_all(dtls, stale)
           /\ lastOp' = Op("REAPER", "", "remove_stale", Cardinality(stale), "", None)
    /\ sent' = <<>>
    /\ UNCHANGED <<now, channel, users, session, by_ufrag, by_addr>>
    /\ UNCHANGED aux

WorkerNext ==
    \/ \E a \in FloorMembers : HandleStun(a, <<a, 1>>)
    \/ \E a \in FloorMembers : HandleDtls(a)
    \/ \E a \in FloorMembers : InitSrtpInbound(a, TRUE)
    \/ \E a \in FloorMembers : InitSrtpOutbound(a, TRUE)
    \/ \E a \in FloorMembers : WorkerFutureEnds(a)
    \/ \E a \in FloorMembers : WorkerRemove(a)
    \/ RemoveStale

WorkerSpec == FloorInit /\ [][WorkerNext]_vars

\* every worker's future ends within DTLS_HANDSHAKE_TIMEOUT_MS, the task then
\* runs on to its remove, and the reaper's interval keeps ticking
WorkerFairSpec ==
    /\ WorkerSpec
    /\ \A a \in FloorMembers : WF_vars(WorkerFutureEnds(a)) /\ WF_vars(WorkerRemove(a))
    /\ WF_vars(RemoveStale)

----------------------------------------------------------------------------
(* ReconnectSpec: connections that IDENTIFY with a user_id of their choice,
   so that two connections can carry the same user_id; none joins a channel *)

\* handle_identify, token accepted, with payload.user_id; the entry holds tx.clone()
\* of the connection that sent the packet
IdentifyAs(c, user_id, payload_priority) ==
    /\ session[c].open
    /\ gate_passes(c, "IDENTIFY")
    /\ LET priority == IF IsSome(payload_priority) THEN unwrap(payload_priority)
                       ELSE FLOOR_PRIORITY_DEFAULT
       IN  /\ users' = register(users, user_id, priority)
           /\ user_tx' = [ user_tx EXCEPT ![user_id] = Some(c) ]
           /\ session' = [ session EXCEPT ![c].user_id = Some(user_id) ]
           /\ lastOp' = Op("IDENTIFY", c, "Ready", priority, user_id, None)
           /\ sent' = send(c, Ready(user_id))
    /\ UNCHANGED <<now, channel, by_ufrag, by_addr>>
    /\ UNCHANGED <<outq, bcast, inflight, admin, last_seen, lk, other_members, dtls>>

\* the socket of a connection that joined no channel closes: cleanup takes
\* session.user_id and calls user_hub.unregister(&user_id); prior records the
\* connection the entry was bound to
CloseConn(c) ==
    /\ session[c].open
    /\ session[c].current_channel = None
    /\ IF ~is_authenticated(c)
       THEN /\ lastOp' = Op("CLOSE", c, "Anonymous", 0, "", None)
            /\ UNCHANGED <<users, user_tx>>
       ELSE LET user_id == unwrap(session[c].user_id) IN
            /\ users' = unregister(users, user_id)
            /\ user_tx' = [ user_tx EXCEPT ![user_id] = None ]
            /\ lastOp' = [ Op("CLOSE", c, "Unregister", 0, user_id, None)
                             EXCEPT !.prior = Some(user_tx[user_id]) ]
    /\ sent' = <<>>
    /\ session' = [ session EXCEPT ![c] = Session_closed ]
    /\ UNCHANGED <<now, channel, by_ufrag, by_addr>>
    /\ UNCHANGED <<outq, bcast, inflight, admin, last_seen, lk, other_members, dtls>>

ReconnectNext ==
    \/ \E c \in Users : Connect(c)
    \/ \E c \in Users, user_id \in ConnUsers, p \in PayloadPriorities : IdentifyAs(c, user_id, p)
    \/ \E c \in Users : CloseConn(c)

ReconnectSpec == Init /\ [][ReconnectNext]_vars

----------------------------------------------------------------------------
(* SessionSpec: two connections that identify, join and leave the two preset
   channels in any order, and close. The Session of a connection holds one
   current_channel and one current_ufrag *)

\* handle_channel_join with payload.channel_id = CH_0002
JoinOther(c) ==
    /\ session[c].open
    /\ gate_passes(c, "CHANNEL_JOIN")
    /\ LET user_id == unwrap(session[c].user_id) IN
       IF user_id \in other_members
       THEN /\ lastOp' = Op("CHANNEL_JOIN", c, "AlreadyInChannel", 0, OTHER_CH, None)
            /\ sent' = <<>>
            /\ UNCHANGED <<other_members, session, by_ufrag>>
       ELSE \E k \in 1..MaxUfrag :
            /\ fresh_ufrag(<<c, k>>)
            /\ \A j \in 1..(k - 1) : ~fresh_ufrag(<<c, j>>)
            /\ LET members == other_members \cup {user_id} IN
               /\ other_members' = members
               /\ by_ufrag' = hub_insert(by_ufrag, by_addr, <<c, k>>, user_id, OTHER_CH)
               /\ session' = [ session EXCEPT ![c].current_channel = Some(OTHER_CH),
                                              ![c].current_ufrag = Some(<<c, k>>) ]
               /\ lastOp' = Op("CHANNEL_JOIN", c, "Joined", 0, OTHER_CH, None)
               /\ sent' = send(c, Ack("CHANNEL_JOIN"))
                          \o (IF ~tx_ok(c) THEN <<>>
                              ELSE broadcast_to(members, ChannelEvent("join", user_id),
                                                Some(user_id)))
    /\ UNCHANGED <<now, channel, users, by_addr>>
    /\ UNCHANGED <<outq, bcast, inflight, admin, last_seen, user_tx, lk, dtls>>

\* handle_channel_leave with payload.channel_id = CH_0002
LeaveOther(c) ==
    /\ session[c].open
    /\ gate_passes(c, "CHANNEL_LEAVE")
    /\ LET user_id == unwrap(session[c].user_id) IN
       IF session[c].current_channel # Some(OTHER_CH)
       THEN /\ lastOp' = Op("CHANNEL_LEAVE", c, "NotInChannel", 0, OTHER_CH, None)
            /\ sent' = send(c, Error(2004))
            /\ UNCHANGED <<other_members, session, by_ufrag, by_addr>>
       ELSE /\ other_members' = other_members \ {user_id}
            /\ by_ufrag' = hub_remove(by_ufrag, session[c].current_ufrag)
            /\ by_addr' = addr_remove(by_addr, by_ufrag, session[c].current_ufrag)
            /\ session' = [ session EXCEPT ![c].current_channel = None,
                                           ![c].current_ufrag = None ]
            /\ lastOp' = Op("CHANNEL_LEAVE", c, "Left", 0, OTHER_CH, None)
            /\ sent' = broadcast_to(other_members, ChannelEvent("leave", user_id), Some(user_id))
                       \o send(c, Ack("CHANNEL_LEAVE"))
    /\ UNCHANGED <<now, channel, users>>
    /\ UNCHANGED <<outq, bcast, inflight, admin, last_seen, user_tx, lk, dtls>>

\* cleanup of a session whose current_channel is CH_0002, whose floor nobody
\* requested: on_user_disconnect finds it Idle with an empty queue
CloseOther(c) ==
    /\ session[c].open
    /\ is_authenticated(c)
    /\ session[c].current_channel = Some(OTHER_CH) /\ IsSome(session[c].current_ufrag)
    /\ LET user_id == unwrap(session[c].user_id) IN
       /\ other_members' = other_members \ {user_id}
       /\ by_ufrag' = hub_remove(by_ufrag, session[c].current_ufrag)
       /\ by_addr' = addr_remove(by_addr, by_ufrag, session[c].current_ufrag)
       /\ users' = unregister(users, user_id)
       /\ lastOp' = Op("CLOSE", c, "Cleanup", 0, OTHER_CH, None)
       /\ sent' = broadcast_to(other_members, ChannelEvent("leave", user_id), Some(user_id))
    /\ session' = [ session EXCEPT ![c] = Session_closed ]
    /\ UNCHANGED <<now, channel>>
    /\ UNCHANGED <<outq, bcast, inflight, admin, last_seen, user_tx, lk, dtls>>

\* the socket closes: cleanup on whichever channel the Session names
CloseSession(c) ==
    IF session[c].current_channel = Some(OTHER_CH) THEN CloseOther(c) ELSE Close(c)

SessionNext ==
    \/ \E c \in ConnUsers : Connect(c)
    \/ \E c \in ConnUsers : HandleIdentify(c, DEFAULT_SECRET_KEY, None)
    \/ \E c \in ConnUsers : HandleChannelJoin(c)
    \/ \E c \in ConnUsers : JoinOther(c)
    \/ \E c \in ConnUsers : HandleChannelLeave(c)
    \/ \E c \in ConnUsers : LeaveOther(c)
    \/ \E c \in ConnUsers : CloseSession(c)

SessionSpec == Init /\ [][SessionNext]_vars

----------------------------------------------------------------------------
(* ZombieSpec: the whole tick of run_zombie_reaper over 40 seconds. A and B
   are members with latched endpoints, C is registered only and silent; a
   HEARTBEAT of a connection touches its user, a STUN keepalive of A its
   endpoint; B's endpoint is silent *)

\* UserHub::find_zombies with > for >=
find_zombies_gt(hub, seen) ==
    { u \in DOMAIN hub :
        IsSome(hub[u]) /\ saturating_sub(current_timestamp, seen[u]) > ZOMBIE_TIMEOUT_MS }

\* UserHub::find_zombies(ZOMBIE_TIMEOUT_MS)
find_zombies(hub, seen) ==
    { u \in DOMAIN hub :
        IsSome(hub[u]) /\ saturating_sub(current_timestamp, seen[u]) >= ZOMBIE_TIMEOUT_MS }

\* MediaPeerHub::find_zombies(ZOMBIE_TIMEOUT_MS)
find_zombie_peers(hub, seen) ==
    { k \in DOMAIN hub :
        IsSome(hub[k]) /\ saturating_sub(current_timestamp, seen[k]) >= ZOMBIE_TIMEOUT_MS }

\* step 1 of the tick on a member set: ch.remove_member(uid) for every dead user
remove_members(members, dead) == members \ dead

\* step 1 of the tick on UserHub: user_hub.unregister(uid) for every dead user
unregister_all(hub, dead) == [ u \in DOMAIN hub |-> IF u \in dead THEN None ELSE hub[u] ]

\* step 2 of the tick: media_hub.remove(ufrag) for every dead peer, on both maps
RECURSIVE remove_peers(_, _)
remove_peers(hub, dead) ==
    IF dead = {} THEN hub
    ELSE LET k == CHOOSE x \in dead : TRUE IN
         remove_peers([ by_ufrag |-> hub_remove(hub.by_ufrag, Some(k)),
                        by_addr  |-> addr_remove(hub.by_addr, hub.by_ufrag, Some(k)) ],
                      dead \ {k})

\* step 4 of the tick: what check_floor_timeouts does to the floor of a
\* channel, and the packets it builds
floor_timeouts(ch) ==
    LET f     == ch.floor
        cause == IF f.state # "Taken" THEN ""
                 ELSE IF is_max_taken_exceeded(f) THEN "max_duration"
                 ELSE IF is_ping_timeout(f) THEN "ping_timeout"
                 ELSE ""
    IN  IF cause = ""
        THEN [ floor |-> f, packets |-> <<>> ]
        ELSE LET d == decide_next(f, ch.members) IN
             [ floor   |-> d.floor,
               packets |-> << Packet(f.floor_taken_by, None, FloorRevoke(cause)) >>
                           \o d.packets ]

\* the frames as a UserHub without the dead users delivers them
RECURSIVE to_registered(_, _)
to_registered(frames, dead) ==
    IF frames = <<>> THEN <<>>
    ELSE << [ Head(frames) EXCEPT !.to = @ \ dead ] >> \o to_registered(Tail(frames), dead)

\* one pass of the loop of run_zombie_reaper
ReaperTick ==
    /\ LET dead_users == find_zombies(users, last_seen.user)
           dead_peers == find_zombie_peers(by_ufrag, last_seen.ep)
           hub        == remove_peers([ by_ufrag |-> by_ufrag, by_addr |-> by_addr ], dead_peers)
           stale      == { a \in DOMAIN dtls.sessions :
                             IsSome(dtls.sessions[a]) /\ unwrap(dtls.sessions[a]).pc = "over" }
       IN  /\ users' = unregister_all(users, dead_users)
           /\ other_members' = remove_members(other_members, dead_users)
           /\ by_ufrag' = hub.by_ufrag
           /\ by_addr' = hub.by_addr
           /\ dtls' = remove_all(dtls, stale)
           /\ IF channel = None
              THEN /\ channel' = channel
                   /\ sent' = <<>>
              ELSE LET ch == [ unwrap(channel) EXCEPT
                                 !.members = remove_members(@, dead_users) ]
                       r  == floor_timeouts(ch)
                   IN  /\ channel' = Some([ ch EXCEPT !.floor = r.floor ])
                       /\ sent' = to_registered(dispatch_packets(r.packets, ch.members),
                                                dead_users)
           /\ lastOp' = [ Op("REAPER_TICK", "", "", Cardinality(dead_users), "", None)
                            EXCEPT !.prior = Some([ dead_users |-> dead_users,
                                                    dead_peers |-> dead_peers ]) ]
    /\ UNCHANGED <<now, session>>
    /\ UNCHANGED <<outq, bcast, inflight, admin, last_seen, user_tx, lk>>

\* handle_socket on a HEARTBEAT: the user of the session is touched if the
\* UserHub still has it, then HEARTBEAT_ACK
ReceiveHeartbeat(c) ==
    /\ session[c].open
    /\ gate_passes(c, "HEARTBEAT")
    /\ last_seen' = IF is_authenticated(c) /\ IsSome(users[unwrap(session[c].user_id)])
                    THEN [ last_seen EXCEPT !.user[unwrap(session[c].user_id)] = current_timestamp ]
                    ELSE last_seen
    /\ lastOp' = Op("HEARTBEAT", c, "", 0, "", None)
    /\ sent' = send(c, HeartbeatAck)
    /\ UNCHANGED <<now, channel, users, session, by_ufrag, by_addr>>
    /\ UNCHANGED <<outq, bcast, inflight, admin, user_tx, lk, other_members, dtls>>

\* handle_stun on a latched address: ep.touch() and the Binding Response
StunKeepalive(src_addr) ==
    /\ IsSome(get_by_addr(src_addr))
    /\ last_seen' = [ last_seen EXCEPT !.ep[unwrap(get_by_addr(src_addr)).ufrag] = current_timestamp ]
    /\ lastOp' = Op("STUN", src_addr, "Keepalive", 0, "", None)
    /\ sent' = <<>>
    /\ UNCHANGED <<now, channel, users, session, by_ufrag, by_addr>>
    /\ UNCHANGED <<outq, bcast, inflight, admin, user_tx, lk, other_members, dtls>>

\* the reaper intervals one run covers
MaxIntervals == 4

\* the clock moves on by one reaper interval
Elapse ==
    /\ now < MaxIntervals * REAPER_INTERVAL_MS
    /\ now' = now + REAPER_INTERVAL_MS
    /\ lastOp' = Op("TICK", "", "", 0, "", None)
    /\ sent' = <<>>
    /\ UNCHANGED <<channel, users, session, by_ufrag, by_addr>>
    /\ UNCHANGED <<aux, dtls>>

ZombieInit ==
    /\ now = 0
    /\ channel = Some([ Channel_new(PRESET_CAPACITY) EXCEPT !.members = FloorMembers ])
    /\ users = [ u \in Users |-> Registered ]
    /\ session = [ c \in Users |->
                     IF c \in FloorMembers
                     THEN [ Session_new EXCEPT !.user_id = Some(c),
                                               !.current_channel = Some(CH),
                                               !.current_ufrag = Some(<<c, 1>>) ]
                     ELSE [ Session_new EXCEPT !.user_id = Some(c) ] ]
    /\ by_ufrag = [ k \in Ufrags |->
                     IF k[1] \in FloorMembers /\ k[2] = 1
                     THEN Some([ Endpoint_new(<<k, 1>>, k, k[1], CH) EXCEPT !.address = Some(k[1]) ])
                     ELSE None ]
    /\ by_addr = [ a \in Users |->
                     IF a \in FloorMembers
                     THEN Some([ Endpoint_new(<<<<a, 1>>, 1>>, <<a, 1>>, a, CH)
                                   EXCEPT !.address = Some(a) ])
                     ELSE None ]
    /\ lastOp = Op("INIT", "", "", 0, "", None)
    /\ sent = <<>>
    /\ AuxInit

ZombieNext ==
    \/ Elapse
    \/ ReaperTick
    \/ \E c \in FloorMembers : ReceiveHeartbeat(c)
    \/ StunKeepalive("A")
    \/ \E c \in FloorMembers : HandleFloorRequest(c, None, None)

ZombieSpec == ZombieInit /\ [][ZombieNext]_vars

----------------------------------------------------------------------------
(* LiveSpec: the floor of the channel when every FLOOR_REQUEST arrives at
   time 0 and none after, over 70 seconds in steps of the reaper's interval.
   The reaper's floor check runs at every tick before the clock moves on;
   holders ping, release or disconnect as they like; nobody revokes by hand *)

\* the reaper intervals the run covers
LiveIntervals == 7

\* the clock reaches the reaper's next tick; it leaves a tick only after the
\* floor check of that tick
NextInterval ==
    /\ now < LiveIntervals * REAPER_INTERVAL_MS
    /\ now > 0 => lastOp.op = "FLOOR_TIMEOUTS"
    /\ now' = now + REAPER_INTERVAL_MS
    /\ lastOp' = Op("TICK", "", "", 0, "", None)
    /\ sent' = <<>>
    /\ UNCHANGED <<channel, users, session, by_ufrag, by_addr>>
    /\ UNCHANGED <<aux, dtls>>

LiveNext ==
    \/ NextInterval
    \/ CheckFloorTimeouts
    \/ \E c \in FloorMembers, i \in PayloadIndicators :
           now = 0 /\ HandleFloorRequest(c, None, i)
    \/ \E c \in FloorMembers : HandleFloorPing(c)
    \/ \E c \in FloorMembers : HandleFloorRelease(c)
    \/ \E c \in FloorMembers : Close(c)

\* time passes, and the reaper's task runs its floor check at every tick
LiveSpec ==
    /\ FloorInit
    /\ [][LiveNext]_vars
    /\ SF_vars(NextInterval)
    /\ WF_vars(CheckFloorTimeouts)

----------------------------------------------------------------------------
(* LockSpec: three tasks that run, side by side and again and again, the code
   paths that take the shared std::sync locks: the ChannelHub channels RwLock,
   a channel's floor Mutex and members RwLock, the UserHub users RwLock. A
   path is the sequence of its acquisitions and releases; the floor and
   members locks are those of one channel, since no path holds the locks of
   two channels at a time. A read of an RwLock waits while a writer waits
   for it, as std::sync::RwLock may make it *)

Acq(l, m) == [ a |-> "acq", l |-> l, m |-> m ]

Rel(l) == [ a |-> "rel", l |-> l, m |-> "" ]

LockPaths ==
    { "admin_list_channels", "count_floor_taken", "reaper_evict", "check_floor_timeouts",
      "list_channels", "floor_handler", "add_member", "create", "register" }

\* the paths with check_floor_timeouts reading the members before it locks
\* the floor, and holding them
lock_path_members_first(name) ==
    CASE name = "admin_list_channels" ->
           << Acq("channels", "r"), Acq("floor", "x"), Acq("members", "r"),
              Rel("members"), Rel("floor"), Rel("channels") >>
      [] name = "count_floor_taken" ->
           << Acq("channels", "r"), Acq("floor", "x"), Rel("floor"), Rel("channels") >>
      [] name = "reaper_evict" ->
           << Acq("channels", "r"), Acq("members", "w"), Rel("members"), Rel("channels"),
              Acq("users", "w"), Rel("users") >>
      [] name = "check_floor_timeouts" ->
           << Acq("channels", "r"), Rel("channels"),
              Acq("members", "r"), Acq("floor", "x"), Rel("floor"), Rel("members"),
              Acq("users", "r"), Rel("users") >>
      [] name = "list_channels" ->
           << Acq("channels", "r"), Acq("members", "r"), Rel("members"), Rel("channels") >>
      [] name = "floor_handler" ->
           << Acq("channels", "r"), Rel("channels"), Acq("members", "r"), Rel("members"),
              Acq("floor", "x"), Rel("floor"), Acq("users", "r"), Rel("users") >>
      [] name = "add_member" -> << Acq("members", "w"), Rel("members") >>
      [] name = "create" -> << Acq("channels", "w"), Rel("channels") >>
      [] name = "register" -> << Acq("users", "w"), Rel("users") >>

\* the lock operations of a path, in program order:
\*   admin_list_channels: channels.read, then per channel floor.lock and
\*     member_count under it
\*   count_floor_taken: channels.read, then per channel floor.lock
\*   reaper_evict: channels.read, then per channel remove_member; unregister
\*   check_floor_timeouts: the channel ids, then floor.lock and get_members
\*     under it, then the sends through UserHub
\*   list_channels (GET /channels, CHANNEL_LIST, admin user detail):
\*     channels.read, then per channel member_count or get_members
\*   floor_handler (FLOOR_REQUEST, FLOOR_RELEASE, disconnect): channel_hub.get,
\*     get_members, floor.lock, then the sends
\*   add_member, create, register: one write lock each
lock_path(name) ==
    CASE name = "admin_list_channels" ->
           << Acq("channels", "r"), Acq("floor", "x"), Acq("members", "r"),
              Rel("members"), Rel("floor"), Rel("channels") >>
      [] name = "count_floor_taken" ->
           << Acq("channels", "r"), Acq("floor", "x"), Rel("floor"), Rel("channels") >>
      [] name = "reaper_evict" ->
           << Acq("channels", "r"), Acq("members", "w"), Rel("members"), Rel("channels"),
              Acq("users", "w"), Rel("users") >>
      [] name = "check_floor_timeouts" ->
           << Acq("channels", "r"), Rel("channels"),
              Acq("floor", "x"), Acq("members", "r"), Rel("members"), Rel("floor"),
              Acq("users", "r"), Rel("users") >>
      [] name = "list_channels" ->
           << Acq("channels", "r"), Acq("members", "r"), Rel("members"), Rel("channels") >>
      [] name = "floor_handler" ->
           << Acq("channels", "r"), Rel("channels"), Acq("members", "r"), Rel("members"),
              Acq("floor", "x"), Rel("floor"), Acq("users", "r"), Rel("users") >>
      [] name = "add_member" -> << Acq("members", "w"), Rel("members") >>
      [] name = "create" -> << Acq("channels", "w"), Rel("channels") >>
      [] name = "register" -> << Acq("users", "w"), Rel("users") >>

\* the operations the task has done
done_ops(t) ==
    IF lk[t].path = "" THEN <<>> ELSE SubSeq(lock_path(lk[t].path), 1, lk[t].pc)

\* the locks the task holds, each with its mode
held(t) ==
    LET ops == done_ops(t) IN
    { <<ops[i].l, ops[i].m>> : i \in { j \in 1..Len(ops) :
        /\ ops[j].a = "acq"
        /\ \A k \in (j + 1)..Len(ops) : ~(ops[k].a = "rel" /\ ops[k].l = ops[j].l) } }

\* the acquisition the task is at, if it is at one
wants(t) ==
    IF lk[t].path # "" /\ lock_path(lk[t].path)[lk[t].pc + 1].a = "acq"
    THEN Some(lock_path(lk[t].path)[lk[t].pc + 1])
    ELSE None

\* the tasks the task's acquisition waits for: the holders of the lock in a
\* mode that excludes its own, and for a read the writers waiting for the lock
blockers(t) ==
    IF wants(t) = None THEN {}
    ELSE LET w == unwrap(wants(t)) IN
         { u \in Tasks \ {t} :
             \/ \E h \in held(u) : h[1] = w.l /\ (w.m # "r" \/ h[2] # "r")
             \/ /\ w.m = "r"
                /\ IsSome(wants(u))
                /\ unwrap(wants(u)).l = w.l /\ unwrap(wants(u)).m = "w" }

\* a task enters a path
LockBegin(t, name) ==
    /\ lk[t].path = ""
    /\ lk' = [ lk EXCEPT ![t] = [ path |-> name, pc |-> 0 ] ]
    /\ UNCHANGED <<now, channel, users, session, by_ufrag, by_addr, lastOp, sent>>
    /\ UNCHANGED <<outq, bcast, inflight, admin, last_seen, user_tx, other_members, dtls>>

\* the task does the next lock operation of its path, an acquisition only
\* when nothing blocks it, and leaves the path after the last
LockStep(t) ==
    /\ lk[t].path # ""
    /\ blockers(t) = {}
    /\ lk' = [ lk EXCEPT ![t] =
                 IF lk[t].pc + 1 = Len(lock_path(lk[t].path))
                 THEN [ path |-> "", pc |-> 0 ]
                 ELSE [ @ EXCEPT !.pc = @ + 1 ] ]
    /\ UNCHANGED <<now, channel, users, session, by_ufrag, by_addr, lastOp, sent>>
    /\ UNCHANGED <<outq, bcast, inflight, admin, last_seen, user_tx, other_members, dtls>>

LockNext ==
    \/ \E t \in Tasks, name \in LockPaths : LockBegin(t, name)
    \/ \E t \in Tasks : LockStep(t)

LockSpec == FloorInit /\ [][LockNext]_vars

----------------------------------------------------------------------------
(* Properties *)

QueueUsers(q) == { q[i].user_id : i \in 1..Len(q) }

\* the users a frame was sent to by the sends s
Recipients(s, pkt) == UNION { s[i].to : i \in { j \in 1..Len(s) : s[j].pkt = pkt } }

\* the registered members of ch other than u
OtherMembers(ch, u) == { m \in ch.members : m # u /\ IsSome(users[m]) }

\* C1: after any FLOOR_REQUEST, FLOOR_RELEASE, FLOOR_PING, disconnect, reaper
\* timeout check or admin revoke, the floor is Idle exactly when it has no
\* holder and no taken-at time.
IdleIffNoHolder ==
    IsSome(channel) =>
        LET f == unwrap(channel).floor IN
        (f.state = "Idle") <=> (f.floor_taken_by = None /\ f.floor_taken_at = None)

\* a held floor was revoked for a ping timeout and nobody was queued: Idle again
IdleAfterPingTimeout ==
    /\ IsSome(channel)
    /\ lastOp.op = "FLOOR_TIMEOUTS"
    /\ lastOp.action = "ping_timeout"
    /\ IsSome(lastOp.old_holder)
    /\ unwrap(channel).floor.state = "Idle"

\* C2: relay_to_channel forwards an RTP packet only if, when it inspects the
\* floor, the channel exists, the floor is Taken and its holder is the sender;
\* otherwise the packet is forwarded to nobody.
RelayOnlyFromHolder ==
    lastOp.op = "SRTP" =>
        (sent # <<>> =>
            /\ IsSome(channel)
            /\ unwrap(channel).floor.state = "Taken"
            /\ unwrap(channel).floor.floor_taken_by = Some(lastOp.user))

\* the holder's packet was forwarded to the other latched and keyed endpoint
HolderPacketRelayed ==
    /\ lastOp.op = "SRTP"
    /\ lastOp.action = "Relayed"
    /\ \E i \in 1..Len(sent) : sent[i].pkt = Rtp(lastOp.user) /\ sent[i].to # {}

\* C3: whenever the floor is Taken, the holder's user_id appears in no entry
\* of the queue, whatever requests (also by the holder or a queued user),
\* releases, disconnects, timeout revokes and admin revokes came before.
HolderNotQueued ==
    IsSome(channel) =>
        LET f == unwrap(channel).floor IN
        f.state = "Taken" /\ IsSome(f.floor_taken_by) =>
            unwrap(f.floor_taken_by) \notin QueueUsers(f.queue)

\* C4: at every grant (a request on an Idle floor, a preempting request, or
\* decide_next popping the queue head) the user who becomes holder is a member
\* of the channel at that moment.
GrantedHolderIsMember ==
    [][ (/\ IsSome(channel) /\ IsSome(channel')
         /\ IsSome(unwrap(channel').floor.floor_taken_by)
         /\ \/ unwrap(channel').floor.floor_taken_by # unwrap(channel).floor.floor_taken_by
            \/ unwrap(channel').floor.floor_taken_at # unwrap(channel).floor.floor_taken_at)
        => unwrap(unwrap(channel').floor.floor_taken_by) \in unwrap(channel').members ]_vars

QueueOrdered(q) ==
    \A i, j \in 1..Len(q) :
        i < j => /\ q[i].priority >= q[j].priority
                 /\ (q[i].priority = q[j].priority => q[i].queued_at <= q[j].queued_at)

\* C5: the queue, head to tail, has non-increasing priority and, among equal
\* priorities, non-decreasing queued_at; an enqueued entry stands after every
\* entry of priority greater or equal and before every entry of strictly
\* lower priority.
QueueSortedAndPlaced ==
    IsSome(channel) =>
        LET q == unwrap(channel).floor.queue IN
        /\ QueueOrdered(q)
        /\ (lastOp.op = "FLOOR_REQUEST" /\ lastOp.action = "Queued" =>
               \E i \in 1..Len(q) :
                   /\ q[i].user_id = lastOp.user
                   /\ q[i].priority = lastOp.priority
                   /\ \A j \in 1..(i - 1) : q[j].priority >= lastOp.priority
                   /\ \A j \in (i + 1)..Len(q) : q[j].priority < lastOp.priority)

\* a request was queued behind an earlier entry of its own priority and ahead
\* of an entry of lower priority
QueuedBetween ==
    /\ IsSome(channel)
    /\ lastOp.op = "FLOOR_REQUEST"
    /\ lastOp.action = "Queued"
    /\ LET q == unwrap(channel).floor.queue IN
       /\ Len(q) = 3
       /\ q[2].user_id = lastOp.user
       /\ q[1].priority = q[2].priority
       /\ q[1].queued_at < q[2].queued_at
       /\ q[3].priority < q[2].priority

NoDup(q) == \A i, j \in 1..Len(q) : q[i].user_id = q[j].user_id => i = j

\* C6: a user_id is in the queue at most once; a request queued for a user who
\* is already queued leaves the queue length unchanged and the user's entry
\* carries the new priority and indicator.
RequeueReplaces ==
    [][ IsSome(channel') =>
          LET q2 == unwrap(channel').floor.queue IN
          /\ NoDup(q2)
          /\ (/\ lastOp'.op = "FLOOR_REQUEST" /\ lastOp'.action = "Queued"
              /\ IsSome(channel)
              /\ lastOp'.user \in QueueUsers(unwrap(channel).floor.queue))
             => /\ Len(q2) = Len(unwrap(channel).floor.queue)
                /\ \E i \in 1..Len(q2) :
                       /\ q2[i].user_id = lastOp'.user
                       /\ q2[i].priority = lastOp'.priority
                       /\ q2[i].indicator = lastOp'.indicator ]_vars

\* a queued user asked again, with priority 200 and indicator Broadcast, and
\* is queued once, among others
Requeued ==
    /\ IsSome(channel)
    /\ lastOp.op = "FLOOR_REQUEST"
    /\ lastOp.action = "Queued"
    /\ IsSome(lastOp.prior)
    /\ lastOp.priority = 200
    /\ lastOp.indicator = "Broadcast"
    /\ Len(unwrap(channel).floor.queue) >= 2

\* C7: a member's FLOOR_REQUEST on an Idle floor makes the requester the holder with
\* the request's priority and indicator, sends FLOOR_GRANTED to the requester
\* only and FLOOR_TAKEN to every other registered member and not to the
\* requester.
IdleRequestGrantsAndNotifies ==
    [][ (/\ lastOp'.op = "FLOOR_REQUEST"
         /\ IsSome(channel)
         /\ lastOp'.user \in unwrap(channel).members
         /\ unwrap(channel).floor.state = "Idle")
        => LET u  == lastOp'.user
               ch == unwrap(channel)
               g  == unwrap(channel').floor
           IN  /\ g.state = "Taken"
               /\ g.floor_taken_by = Some(u)
               /\ g.floor_priority = lastOp'.priority
               /\ g.floor_indicator = lastOp'.indicator
               /\ Recipients(sent', FloorGranted(u)) = {u}
               /\ Recipients(sent', FloorTaken(u, lastOp'.indicator)) = OtherMembers(ch, u) ]_vars

\* C8: can_preempt is true exactly when the floor is Taken and the request is
\* an Emergency or has a priority above the holder's, for every priority
\* 0..255 and every indicator.
CanPreemptExactly ==
    lastOp.op = "can_preempt" =>
        LET f == unwrap(channel).floor IN
        (lastOp.action = "true") <=>
            (f.state = "Taken" /\ (lastOp.indicator = "Emergency" \/ lastOp.priority > f.floor_priority))

\* a non-Emergency request of the holder's own priority was refused
EqualPriorityRefused ==
    /\ lastOp.op = "can_preempt"
    /\ lastOp.action = "false"
    /\ lastOp.indicator = "ImminentPeril"
    /\ unwrap(channel).floor.state = "Taken"
    /\ lastOp.priority = unwrap(channel).floor.floor_priority
    /\ lastOp.priority = U8_MAX

\* C9: a preempting FLOOR_REQUEST by a member other than the holder, who is a
\* registered member too, sends
\* FLOOR_REVOKE "preempted" to the old holder, makes the requester the holder,
\* sends FLOOR_GRANTED to the requester and FLOOR_TAKEN to the other registered
\* members, and leaves the queue unchanged.
PreemptRevokesAndNotifies ==
    [][ (/\ lastOp'.op = "FLOOR_REQUEST"
         /\ IsSome(channel)
         /\ unwrap(channel).floor.state = "Taken"
         /\ IsSome(unwrap(channel).floor.floor_taken_by)
         /\ unwrap(channel).floor.floor_taken_by # Some(lastOp'.user)
         /\ lastOp'.user \in unwrap(channel).members
         /\ unwrap(unwrap(channel).floor.floor_taken_by) \in unwrap(channel).members
         /\ IsSome(users[unwrap(unwrap(channel).floor.floor_taken_by)])
         /\ \/ lastOp'.indicator = "Emergency"
            \/ lastOp'.priority > unwrap(channel).floor.floor_priority)
        => LET u   == lastOp'.user
               ch  == unwrap(channel)
               old == unwrap(ch.floor.floor_taken_by)
               g   == unwrap(channel').floor
           IN  /\ g.state = "Taken"
               /\ g.floor_taken_by = Some(u)
               /\ g.queue = ch.floor.queue
               /\ Recipients(sent', FloorRevoke("preempted")) = {old}
               /\ Recipients(sent', FloorGranted(u)) = {u}
               /\ Recipients(sent', FloorTaken(u, lastOp'.indicator)) = OtherMembers(ch, u) ]_vars

\* C10: a FLOOR_REQUEST that cannot preempt a Taken floor leaves holder,
\* holder priority and state unchanged, queues the requester, and sends
\* FLOOR_QUEUE_POS_INFO to the requester only, with the requester's 1-based
\* queue index and the queue length after the insertion.
QueuedRequestReportsPosition ==
    [][ (/\ lastOp'.op = "FLOOR_REQUEST"
         /\ IsSome(channel)
         /\ unwrap(channel).floor.state = "Taken"
         /\ lastOp'.indicator # "Emergency"
         /\ lastOp'.priority <= unwrap(channel).floor.floor_priority)
        => LET u == lastOp'.user
               f == unwrap(channel).floor
               g == unwrap(channel').floor
           IN  /\ g.state = f.state
               /\ g.floor_taken_by = f.floor_taken_by
               /\ g.floor_priority = f.floor_priority
               /\ \E i \in 1..Len(g.queue) :
                      /\ g.queue[i].user_id = u
                      /\ sent' = << Snd({u}, FloorQueuePosInfo(i, Len(g.queue))) >> ]_vars

\* a request was queued second of two and its requester told so
QueuedSecondOfTwo ==
    /\ IsSome(channel)
    /\ lastOp.op = "FLOOR_REQUEST"
    /\ lastOp.action = "Queued"
    /\ Len(unwrap(channel).floor.queue) = 2
    /\ unwrap(channel).floor.queue[2].user_id = lastOp.user
    /\ sent = << Snd({lastOp.user}, FloorQueuePosInfo(2, 2)) >>

\* C11: a FLOOR_RELEASE or FLOOR_PING from a user who is not the holder of the
\* channel changes nothing of the channel (floor state, holder, queue,
\* last_ping_at) and sends no frame to anyone.
NonHolderIgnored ==
    [][ (/\ lastOp'.op \in {"FLOOR_RELEASE", "FLOOR_PING"}
         /\ IsSome(channel)
         /\ unwrap(channel).floor.floor_taken_by # Some(lastOp'.user))
        => /\ channel' = channel
           /\ sent' = <<>> ]_vars

\* a queued user who is not the holder sent FLOOR_RELEASE on a Taken floor
QueuedUserReleaseIgnored ==
    /\ IsSome(channel)
    /\ lastOp.op = "FLOOR_RELEASE"
    /\ lastOp.action = "NonHolder"
    /\ unwrap(channel).floor.state = "Taken"
    /\ unwrap(channel).floor.floor_taken_by # Some(lastOp.user)
    /\ lastOp.user \in QueueUsers(unwrap(channel).floor.queue)
    /\ sent = <<>>

DisconnectClearsFloor ==
    [][ (/\ lastOp'.op = "CLOSE"
         /\ IsSome(channel)
         /\ IsSome(session[lastOp'.user].user_id)
         /\ session[lastOp'.user].current_channel = Some(CH))
        => LET u    == lastOp'.user
               ch   == unwrap(channel)
               f    == ch.floor
               g    == unwrap(channel').floor
               q1   == SelectSeq(f.queue, LAMBDA e : e.user_id # u)
               rest == { m \in ch.members \ {u} : IsSome(users[m]) }
           IN  /\ IsSome(channel')
               /\ u \notin QueueUsers(g.queue)
               /\ g.floor_taken_by # Some(u)
               /\ u \notin unwrap(channel').members
               /\ \A i \in 1..Len(sent') : u \notin sent'[i].to
               /\ IF f.floor_taken_by = Some(u)
                  THEN IF q1 # <<>>
                       THEN LET h == Head(q1) IN
                            /\ g.state = "Taken"
                            /\ g.floor_taken_by = Some(h.user_id)
                            /\ g.floor_priority = h.priority
                            /\ g.floor_indicator = h.indicator
                            /\ g.queue = Tail(q1)
                            /\ Recipients(sent', FloorGranted(h.user_id))
                                   = { x \in {h.user_id} : IsSome(users[x]) }
                            /\ Recipients(sent', FloorTaken(h.user_id, h.indicator))
                                   = rest \ {h.user_id}
                       ELSE /\ g.state = "Idle"
                            /\ g.floor_taken_by = None
                            /\ g.queue = <<>>
                            /\ Recipients(sent', FloorIdle) = rest
                  ELSE /\ g.state = f.state
                       /\ g.floor_taken_by = f.floor_taken_by
                       /\ g.floor_priority = f.floor_priority
                       /\ g.queue = q1
                       /\ \A i \in 1..Len(sent') : sent'[i].pkt.op = "CHANNEL_EVENT" ]_vars

\* the holder's socket closed with another user queued, who now holds the
\* floor and was told so
HolderDisconnectGrantsNext ==
    /\ lastOp.op = "CLOSE"
    /\ lastOp.action = "Cleanup"
    /\ lastOp.old_holder = Some(lastOp.user)
    /\ IsSome(channel)
    /\ LET f == unwrap(channel).floor IN
       /\ f.state = "Taken"
       /\ IsSome(f.floor_taken_by)
       /\ f.floor_taken_by # Some(lastOp.user)
       /\ Recipients(sent, FloorGranted(unwrap(f.floor_taken_by))) = {unwrap(f.floor_taken_by)}

\* C14: after CHANNEL_LEAVE is processed for a user on its current channel,
\* the user is neither the holder of that channel's floor nor in its queue,
\* and if the user was the holder the floor has passed to the queue head or
\* gone Idle.
LeaveClearsFloor ==
    [][ (/\ lastOp'.op = "CHANNEL_LEAVE"
         /\ IsSome(channel)
         /\ session[lastOp'.user].current_channel = Some(CH))
        => LET u  == lastOp'.user
               f  == unwrap(channel).floor
               g  == unwrap(channel').floor
               q1 == SelectSeq(f.queue, LAMBDA e : e.user_id # u)
           IN  /\ g.floor_taken_by # Some(u)
               /\ u \notin QueueUsers(g.queue)
               /\ (f.floor_taken_by = Some(u) =>
                      IF q1 # <<>>
                      THEN g.floor_taken_by = Some(Head(q1).user_id)
                      ELSE g.state = "Idle") ]_vars

\* the registered members of ch
RegisteredMembers(ch) == { m \in ch.members : IsSome(users[m]) }

\* decide_next was applied to floor f of channel ch at the current time,
\* giving floor g and the sends s
PassedOn(ch, f, g, s) ==
    IF f.queue = <<>>
    THEN /\ g.state = "Idle"
         /\ g.floor_taken_by = None
         /\ Recipients(s, FloorIdle) = RegisteredMembers(ch)
    ELSE LET h == Head(f.queue) IN
         /\ g.state = "Taken"
         /\ g.floor_taken_by = Some(h.user_id)
         /\ g.floor_taken_at = Some(now)
         /\ g.queue = Tail(f.queue)
         /\ Recipients(s, FloorGranted(h.user_id)) = { x \in {h.user_id} : IsSome(users[x]) }
         /\ Recipients(s, FloorTaken(h.user_id, h.indicator)) = OtherMembers(ch, h.user_id)

MaxDurationRevokes ==
    [][ /\ (/\ lastOp'.op = "FLOOR_TIMEOUTS"
            /\ IsSome(channel)
            /\ unwrap(channel).floor.state = "Taken"
            /\ now - unwrap(unwrap(channel).floor.floor_taken_at) >= FLOOR_MAX_TAKEN_MS)
           => LET ch     == unwrap(channel)
                  f      == ch.floor
                  g      == unwrap(channel').floor
                  holder == unwrap(f.floor_taken_by)
              IN  /\ Recipients(sent', FloorRevoke("max_duration"))
                         = { x \in {holder} : IsSome(users[x]) }
                  /\ Recipients(sent', FloorRevoke("ping_timeout")) = {}
                  /\ PassedOn(ch, f, g, sent')
        /\ (IsSome(channel') /\ unwrap(channel').floor.state = "Taken")
           => now' - unwrap(unwrap(channel').floor.floor_taken_at)
                  <= FLOOR_MAX_TAKEN_MS + REAPER_INTERVAL_MS ]_vars

\* an Emergency holder was revoked for max_duration 30 s or more into its
\* grant and the queued user took over
LongHolderRevokedAtMax ==
    /\ lastOp.op = "FLOOR_TIMEOUTS"
    /\ lastOp.action = "max_duration"
    /\ now >= FLOOR_MAX_TAKEN_MS
    /\ unwrap(channel).floor.state = "Taken"
    /\ unwrap(channel).floor.floor_taken_by # lastOp.old_holder
    /\ Recipients(sent, FloorRevoke("max_duration")) = {unwrap(lastOp.old_holder)}

LatchedAddrResolves ==
    \A k \in DOMAIN by_ufrag :
        (IsSome(by_ufrag[k]) /\ IsSome(unwrap(by_ufrag[k]).address))
            => get_by_addr(unwrap(unwrap(by_ufrag[k]).address)) = by_ufrag[k]

\* C19: after remove(ufrag) of an endpoint, get_by_ufrag(ufrag) is None and no
\* address of by_addr maps to the removed endpoint, whatever inserts and
\* latches came before.
RemoveUnindexes ==
    [][ (/\ lastOp'.op = "remove"
         /\ IsSome(by_ufrag[<<lastOp'.user, lastOp'.priority>>]))
        => LET k  == <<lastOp'.user, lastOp'.priority>>
               ep == unwrap(by_ufrag[k])
           IN  /\ by_ufrag'[k] = None
               /\ \A a \in DOMAIN by_addr' :
                      IsSome(by_addr'[a]) => unwrap(by_addr'[a]).ptr # ep.ptr ]_vars

\* C20: a channel's member set never exceeds its capacity; add_member on a
\* channel that already has capacity-many members fails with ChannelFull and
\* leaves the member set unchanged; add_member of a user already in a
\* non-full channel fails with AlreadyInChannel and leaves the set unchanged.
MembersWithinCapacity ==
    /\ [](Cardinality(unwrap(channel).members) <= unwrap(channel).capacity)
    /\ [][ lastOp'.op = "add_member"
           => LET ch == unwrap(channel) IN
              /\ Cardinality(ch.members) = ch.capacity
                   => /\ lastOp'.action = "ChannelFull"
                      /\ unwrap(channel').members = ch.members
              /\ (Cardinality(ch.members) < ch.capacity /\ lastOp'.user \in ch.members)
                   => /\ lastOp'.action = "AlreadyInChannel"
                      /\ unwrap(channel').members = ch.members
              /\ (Cardinality(ch.members) < ch.capacity /\ lastOp'.user \notin ch.members)
                   => /\ lastOp'.action = "Ok"
                      /\ unwrap(channel').members = ch.members \cup {lastOp'.user} ]_vars

\* a full channel of at least two members has just refused one more user
FullChannelRefusedJoin ==
    /\ lastOp.op = "add_member"
    /\ lastOp.action = "ChannelFull"
    /\ lastOp.user \notin unwrap(channel).members
    /\ Cardinality(unwrap(channel).members) = unwrap(channel).capacity
    /\ unwrap(channel).capacity >= 2

\* what C21 says of a second unregister and of a register, for any user_id
UnregisterTwiceAndReplace ==
    /\ (lastOp.op = "unregister" /\ lastOp'.op = "unregister" /\ lastOp'.user = lastOp.user)
          => users' = users
    /\ lastOp'.op = "register"
          => /\ users'[lastOp'.user] = Some([ priority |-> lastOp'.priority ])
             /\ \A u \in DOMAIN users : u # lastOp'.user => users'[u] = users[u]
             /\ IsSome(users[lastOp'.user]) => count(users') = count(users)

\* C21 as stated: for any user_id, register followed by unregister returns
\* the hub to the user count it had before the register; a second unregister
\* of the same id changes nothing; a second register with the same id
\* replaces the prior entry without increasing the count.
RegisterUnregisterRoundTrip ==
    [][ /\ (lastOp.op = "register" /\ lastOp'.op = "unregister" /\ lastOp'.user = lastOp.user)
            => count(users') = unwrap(lastOp.prior)
        /\ UnregisterTwiceAndReplace ]_vars

\* C21 (amended): for a user_id that was not registered, register followed by
\* unregister returns the hub to the user count it had before the register;
\* for any user_id a second unregister changes nothing and a second register
\* replaces the prior entry without increasing the count.
FreshRegisterUnregisterRoundTrip ==
    [][ /\ (/\ lastOp.op = "register" /\ lastOp.action = "new"
             /\ lastOp'.op = "unregister" /\ lastOp'.user = lastOp.user)
            => count(users') = unwrap(lastOp.prior)
        /\ UnregisterTwiceAndReplace ]_vars

\* a user registered into a hub of other users has just been unregistered
FreshUserUnregistered ==
    /\ lastOp.op = "unregister"
    /\ lastOp.action = "removed"
    /\ lastOp.indicator = "new"
    /\ count(users) >= 1

\* C22: create on a channel_id that exists returns the existing channel and
\* leaves its attributes, members and floor as they were (so N creates yield
\* the channel of the first); remove returns true when the channel existed
\* and false on every later call, and the channel is gone afterwards.
CreateIdempotentRemoveOnce ==
    [][ /\ lastOp'.op = "create"
            => /\ IsSome(channel) => channel' = channel /\ lastOp'.action = "existing"
               /\ channel = None => /\ channel' = Some(Channel_new(lastOp'.priority))
                                    /\ lastOp'.action = "created"
        /\ lastOp'.op = "remove"
            => /\ channel' = None
               /\ lastOp'.action = (IF IsSome(channel) THEN "true" ELSE "false")
        /\ (lastOp.op = "remove" /\ lastOp'.op = "remove") => lastOp'.action = "false" ]_vars

\* a create with another capacity has just returned an existing channel that
\* has members
CreateReturnedExisting ==
    /\ lastOp.op = "create"
    /\ lastOp.action = "existing"
    /\ IsSome(channel)
    /\ unwrap(channel).capacity # lastOp.priority
    /\ unwrap(channel).members # {}

\* C23: broadcast_to never waits on a recipient: while a call is in progress
\* its next send returns at once, also when that recipient's outbound queue is
\* full or closed, so the call goes on to the remaining recipients and
\* completes.
BroadcastNeverWaits ==
    (IsSome(bcast) /\ unwrap(bcast).txs # <<>>) => send_ready(Head(unwrap(bcast).txs))

ChannelFaultAnswered ==
    [][ \A c \in ConnUsers :
          (/\ lastOp'.user = c
           /\ \/ /\ lastOp'.op = "CHANNEL_JOIN"
                 /\ \/ channel = None
                    \/ add_member_error(unwrap(channel), unwrap(session[c].user_id)) # ""
              \/ /\ lastOp'.op = "CHANNEL_LEAVE"
                 /\ session[c].current_channel # Some(CH))
          => /\ \E code \in {2000, 2001, 2003, 2004} : sent' = << Snd({c}, Error(code)) >>
             /\ UNCHANGED <<channel, by_ufrag, by_addr, session>> ]_vars

\* C26: whenever the media hot path looks at an endpoint, through either map,
\* the endpoint's inbound and outbound SRTP contexts are both unkeyed or both
\* keyed, whatever init_srtp_contexts did
SrtpContextsKeyedTogether ==
    /\ \A k \in DOMAIN by_ufrag :
         IsSome(by_ufrag[k]) =>
            (unwrap(by_ufrag[k]).inbound_srtp <=> unwrap(by_ufrag[k]).outbound_srtp)
    /\ \A a \in DOMAIN by_addr :
         IsSome(by_addr[a]) =>
            (unwrap(by_addr[a]).inbound_srtp <=> unwrap(by_addr[a]).outbound_srtp)

\* C30: a DTLS record from an address with no latched endpoint and no session
\* joins the end of that address's pending queue; when the STUN cold path
\* latches an endpoint to an address with buffered records, a worker is started
\* for that endpoint with exactly the buffered records in arrival order and the
\* queue is left empty; a record from an address with a session in flight is
\* appended to that session's input, and one from a latched address without a
\* session starts a worker whose input is that record alone
DtlsStep(a) ==
    LET packet == dtls.arrived + 1 IN
    /\ (~inject_ok(dtls, a) /\ by_addr[a] = None) =>
          /\ dtls'.pending[a] = Append(dtls.pending[a], packet)
          /\ dtls'.sessions = dtls.sessions
    /\ inject_ok(dtls, a) =>
          /\ dtls'.sessions[a] =
                Some([ unwrap(dtls.sessions[a]) EXCEPT !.inbox = Append(@, packet) ])
          /\ dtls'.pending = dtls.pending
    /\ (~inject_ok(dtls, a) /\ IsSome(by_addr[a])) =>
          /\ dtls'.sessions[a] =
                Some([ endpoint |-> unwrap(by_addr[a]).ptr, inbox |-> <<packet>>,
                       pc |-> "handshake" ])
          /\ dtls'.pending = dtls.pending

LatchStep(a) ==
    dtls.pending[a] # <<>> =>
        /\ dtls'.sessions[a] =
              Some([ endpoint |-> unwrap(by_addr'[a]).ptr, inbox |-> dtls.pending[a],
                     pc |-> "handshake" ])
        /\ dtls'.pending[a] = <<>>

RelayedStep(src, enc_fail, send_fail) ==
    LET sender  == unwrap(by_addr[src])
        others  == { k \in Ufrags : IsSome(by_ufrag[k]) /\ k # sender.ufrag }
        same    == { k \in others : unwrap(by_ufrag[k]).channel_id = sender.channel_id }
        able    == { k \in same : /\ IsSome(unwrap(by_ufrag[k]).address)
                                  /\ unwrap(by_ufrag[k]).outbound_srtp
                                  /\ k \notin enc_fail }
        addr(k) == unwrap(unwrap(by_ufrag[k]).address)
        to      == IF sent' = <<>> THEN {} ELSE sent'[1].to
    IN  /\ Len(sent') <= 1
        /\ to = { addr(k) : k \in able } \ send_fail
        /\ src \notin to
        /\ \A k \in others \ same :
              IsSome(unwrap(by_ufrag[k]).address) => addr(k) \notin to

RelayTargetsExact ==
    [][ (lastOp'.op = "SRTP" /\ lastOp'.action = "Relayed") =>
            RelayedStep(unwrap(lastOp'.prior).src_addr, unwrap(lastOp'.prior).enc_fail,
                        unwrap(lastOp'.prior).send_fail) ]_vars

\* C29 witness: with two able targets in the channel, encrypt failed for one
\* and the packet still went to the other
RelayedPastFailedTarget ==
    /\ lastOp.op = "SRTP" /\ lastOp.action = "Relayed"
    /\ unwrap(lastOp.prior).enc_fail = { <<"B", 1>> }
    /\ IsSome(by_ufrag[<<"B", 1>>]) /\ unwrap(by_ufrag[<<"B", 1>>]).outbound_srtp
    /\ unwrap(by_ufrag[<<"B", 1>>]).address = Some("B")
    /\ unwrap(by_ufrag[<<"C", 1>>]).channel_id = CH
    /\ sent = << Snd({"C"}, Rtp("A")) >>

\* C28: among the frames a handler enqueues for a grant (an Idle grant, a
\* preemption, or the grant of decide_next after a release, a disconnect or a
\* timeout revoke), a FLOOR_TAKEN is always preceded by the FLOOR_GRANTED to the
\* new holder it names, addressed to that user alone, and a FLOOR_REVOKE comes
\* before every FLOOR_GRANTED and FLOOR_TAKEN
GrantedBeforeTaken ==
    \A i \in 1..Len(sent) :
        /\ sent[i].pkt.op = "FLOOR_TAKEN" =>
              \E j \in 1..(i - 1) :
                  /\ sent[j].pkt.op = "FLOOR_GRANTED"
                  /\ sent[j].pkt.user_id = sent[i].pkt.user_id
                  /\ sent[j].to = { sent[i].pkt.user_id }
        /\ sent[i].pkt.op = "FLOOR_REVOKE" =>
              \A j \in 1..Len(sent) :
                  sent[j].pkt.op \in {"FLOOR_GRANTED", "FLOOR_TAKEN"} => i < j

\* C27: once no handler has a frame left to send, the last floor state frame
\* (FLOOR_GRANTED, FLOOR_TAKEN or FLOOR_IDLE) waiting in a member's outbound
\* queue tells the channel's floor state and holder, because the frames reach
\* each queue in the order of the floor transitions that produced them
IsFloorStateFrame(pkt) == pkt.op \in {"FLOOR_GRANTED", "FLOOR_TAKEN", "FLOOR_IDLE"}

FrameAgreesWithFloor(pkt, f) ==
    IF pkt.op = "FLOOR_IDLE"
    THEN f.state = "Idle"
    ELSE f.state = "Taken" /\ f.floor_taken_by = Some(pkt.user_id)

LastFloorFrameAgrees ==
    (IsSome(channel) /\ \A c \in Users : inflight[c] = <<>>) =>
        \A u \in unwrap(channel).members :
            LET frames == SelectSeq(outq[u], IsFloorStateFrame) IN
            frames # <<>> => FrameAgreesWithFloor(frames[Len(frames)], unwrap(channel).floor)

\* C32: a datagram whose first byte is 0-3 goes to the STUN handler, 20-63 to
\* the DTLS handler, 128-191 to the RTP/RTCP handler, and a datagram with any
\* other first byte, or an empty one, is dropped with no handler run
DemuxByFirstByte ==
    lastOp.op = "UDP" =>
        LET packet == unwrap(lastOp.prior) IN
        lastOp.action =
            IF packet = <<>> THEN "drop"
            ELSE IF packet[1] \in 0..3 THEN "handle_stun"
            ELSE IF packet[1] \in 20..63 THEN "handle_dtls"
            ELSE IF packet[1] \in 128..191 THEN "handle_srtp"
            ELSE "drop"

\* C34: whenever the floor is Idle its queue is empty, after every sequence of
\* requests, releases, pings, disconnects, timeouts and admin revokes
IdleFloorHasEmptyQueue ==
    (IsSome(channel) /\ unwrap(channel).floor.state = "Idle")
        => unwrap(channel).floor.queue = <<>>

\* the holder left the floor by release, disconnect or timeout with nobody
\* waiting, and FLOOR_IDLE went out
IdleAfterHolderLeft ==
    /\ lastOp.op \in {"FLOOR_RELEASE", "CLOSE", "FLOOR_TIMEOUTS"}
    /\ IsSome(lastOp.old_holder)
    /\ IsSome(channel)
    /\ unwrap(channel).floor.state = "Idle"
    /\ unwrap(channel).floor.queue = <<>>
    /\ \E i \in 1..Len(sent) : sent[i].pkt = FloorIdle

\* C37: when admin revoke clears the floor, the floor is Taken at that moment
\* and FLOOR_REVOKE with cause admin_revoke goes to exactly its holder of that
\* moment, whatever FLOOR_REQUEST and FLOOR_RELEASE handlers ran beside it
RevokeReachesHolderAtClear ==
    (lastOp.op = "ADMIN_REVOKE" /\ lastOp.action = "Revoked")
        => LET found == unwrap(lastOp.prior) IN
           /\ found.state = "Taken"
           /\ IsSome(found.floor_taken_by)
           /\ Recipients(sent, FloorRevoke("admin_revoke")) = {unwrap(found.floor_taken_by)}

\* C38: the remove of a worker that ended takes away only that worker's own
\* entry: a live session registered for the same address before the remove
\* keeps its entry
WorkerRemovesOnlyOwnEntry ==
    (lastOp.op = "DTLS_WORKER" /\ lastOp.action = "Removed")
        => LET entry == unwrap(lastOp.prior) IN
           (IsSome(entry) /\ unwrap(entry).pc # "over")
               => dtls.sessions[lastOp.user] = entry

\* C31: every session recorded in the DtlsSessionMap, named by the record that
\* started it, eventually is no longer the entry of its address
SessionEventuallyRemoved ==
    \A a \in FloorMembers, n \in 1..MaxDtlsRecords :
        (IsSome(dtls.sessions[a]) /\ Head(unwrap(dtls.sessions[a]).inbox) = n)
            ~> ~(IsSome(dtls.sessions[a]) /\ Head(unwrap(dtls.sessions[a]).inbox) = n)

\* a worker finished its handshake, keyed the endpoint, ended, and its entry
\* was removed
KeyedSessionRemoved ==
    /\ lastOp.op = "DTLS_WORKER" /\ lastOp.action = "Removed"
    /\ IsSome(unwrap(lastOp.prior))
    /\ unwrap(unwrap(lastOp.prior)).pc = "over"
    /\ dtls.sessions[lastOp.user] = None
    /\ \E k \in DOMAIN by_ufrag : IsSome(by_ufrag[k]) /\ unwrap(by_ufrag[k]).outbound_srtp

\* C35: when a connection closes whose user_id is by then registered to
\* another connection, the user_id stays registered and bound to that other
\* connection's outbound queue
CloseKeepsNewerRegistration ==
    (lastOp.op = "CLOSE" /\ lastOp.action = "Unregister")
        => LET bound == unwrap(lastOp.prior) IN
           (IsSome(bound) /\ unwrap(bound) # lastOp.user)
               => /\ IsSome(users[lastOp.indicator])
                  /\ user_tx[lastOp.indicator] = bound

\* C36: after the cleanup of a closed connection its user_id is a member of
\* no channel and no endpoint of either MediaPeerHub map carries it, whatever
\* CHANNEL_JOIN and CHANNEL_LEAVE requests the connection made
CleanupLeavesNothingBehind ==
    (lastOp.op = "CLOSE" /\ lastOp.action # "Anonymous")
        => LET user_id == lastOp.user IN
           /\ IsSome(channel) => user_id \notin unwrap(channel).members
           /\ user_id \notin other_members
           /\ \A k \in DOMAIN by_ufrag :
                 IsSome(by_ufrag[k]) => unwrap(by_ufrag[k]).user_id # user_id
           /\ \A a \in DOMAIN by_addr :
                 IsSome(by_addr[a]) => unwrap(by_addr[a]).user_id # user_id

QueuedEventuallyGranted ==
    \A u \in FloorMembers :
        (/\ IsSome(channel)
         /\ \E i \in 1..Len(unwrap(channel).floor.queue) :
               unwrap(channel).floor.queue[i].user_id = u)
            ~> (\/ ~session[u].open
                \/ IsSome(channel) /\ unwrap(channel).floor.floor_taken_by = Some(u))

\* the reaper revoked a holder for max_duration and the floor went to the
\* user who had waited in the queue since time 0
QueuedGrantedAfterMaxDuration ==
    /\ lastOp.op = "FLOOR_TIMEOUTS" /\ lastOp.action = "max_duration"
    /\ IsSome(unwrap(channel).floor.floor_taken_by)
    /\ unwrap(channel).floor.floor_taken_by # lastOp.old_holder
    /\ now >= FLOOR_MAX_TAKEN_MS

\* C40: no set of tasks waits in a cycle on the channels, floor, members and
\* users locks: in every reachable state, every nonempty set of tasks has a
\* member that no task of the set blocks
NoCyclicWait ==
    \A S \in SUBSET Tasks :
        S # {} => \E t \in S : blockers(t) \cap S = {}

\* a task holds channels, floor and members nested, as admin_list_channels
\* does, while a second task waits for one of them and a third waits to write
NestedHolderWithWaiters ==
    \E t \in Tasks :
        /\ Cardinality(held(t)) = 3
        /\ \E u \in Tasks \ {t} : blockers(u) = {t}
        /\ \E v \in Tasks \ {t} : IsSome(wants(v)) /\ unwrap(wants(v)).m = "w" /\ t \in blockers(v)

====
